---------------------------- MODULE Spec2Model ----------------------------
(***************************************************************************)
(* The text-to-markup synthesis engine of app/utils/speech_service.py     *)
(* (class GoogleTTS_SSML): interpret_numbers, detect_emotion,             *)
(* text_to_ssml_with_emotion, set_language and synthesize; and the        *)
(* provider GoogleTTS of the same file.                                   *)
(*                                                                         *)
(* Texts are TLA+ strings.  A character is a string of length one,        *)
(* Char(s, i); the regular expressions of the source are written out as   *)
(* matchers over character positions and re.sub as ReSub.  A value that    *)
(* is read several times is the parameter of an operator of its own.      *)
(***************************************************************************)
EXTENDS Integers, Sequences, FiniteSets

VARIABLES
    current_language,   \* GoogleTTS_SSML.current_language
    supplied,           \* the language name last handed to set_language
    text,               \* the text of the request being made
    typed,              \* the number of pieces the text was built from
    op,                 \* the operation run on text, "none" before it runs;
                        \* a synthesize is under way until it returns
    result,             \* the text the operation returned
    raised,             \* whether the operation raised and returned nothing
    pause,              \* the break_time the document was assembled with
    call,               \* the calls of text_to_ssml_with_emotion under way,
                        \* one for each thread: its arguments and locals,
                        \* and the languages it has read
    google,             \* the GoogleTTS provider: its current_language and
                        \* its voice_name
    audio,              \* what the last synthesize returned: "none" before
                        \* it runs, "audio" for the audio content of the
                        \* response, "empty" for b""
    dictionaries        \* the three dictionaries of the module, which every
                        \* engine of the process reads: for each the
                        \* literals whose items it holds, in the order they
                        \* were put in

vars == <<current_language, supplied, text, typed, op, result, raised, pause, call, google,
          audio, dictionaries>>

-----------------------------------------------------------------------------
(* Characters and character classes of Python's re and str.  A text is a  *)
(* string over the Basic Multilingual Plane.  The lexer of the TLA+ tools  *)
(* takes the characters of ASCII (the grave accent U+0060 excepted) and,   *)
(* above U+007F, those whose code point has a low byte of 0x80 or more;    *)
(* a character it rejects is written as the character 0x80 above it        *)
(* (Devanagari U+09xx appears in U+098x-U+09Fx, Telugu U+0Cxx in           *)
(* U+0C8x-U+0CFx).  A written character above U+00FF so has two readings:  *)
(* itself and the character 0x80 below it.  The tables hold every written  *)
(* character, and give it the classes and the lower case of one of its     *)
(* readings: of the character of the source file, of the white space, the  *)
(* decimal digit, or the letter of Latin, IPA, Greek, Cyrillic,            *)
(* Devanagari, Tamil or Telugu, if one of the two is such; else of the one *)
(* that has a class, if one has none; else of the one whose lower case is  *)
(* written as a character that stands for that lower case.  Where the two  *)
(* readings agree, which is the case for most, the tables hold for both.   *)
(* U+0130, whose lower case is two characters, is the other reading of     *)
(* U+01B0 and is not what the tables read there.                           *)

Char(s, i) == SubSeq(s, i, i)

\* \d : the decimal digits, a row for each script, from zero to nine
Decimals ==
    << "0123456789",
       "ۣ۠ۡۢۤۥۦۧۨ۩",
       "۰۱۲۳۴۵۶۷۸۹",
       "߀߁߂߃߄߅߆߇߈߉",
       "০১২৩৪৫৬৭৮৯",
       "૦૧૨૩૪૫૬૭૮૯",
       "௦௧௨௩௪௫௬௭௮௯",
       "೦೧೨೩೪೫೬೭೮೯",
       "෦෧෨෩෪෫෬෭෮෯",
       "໐໑໒໓໔໕໖໗໘໙",
       "ྠྡྡྷྣྤྥྦྦྷྨྩ",
       "႐႑႒႓႔႕႖႗႘႙",
       "ჀჁჂჃჄჅ჆Ⴧ჈჉",
       "០១២៣៤៥៦៧៨៩",
       "ᢐᢑᢒᢓᢔᢕᢖᢗᢘᢙ",
       "ᧆᧇᧈᧉ᧊᧋᧌᧍᧎᧏",
       "᧐᧑᧒᧓᧔᧕᧖᧗᧘᧙",
       "᪀᪁᪂᪃᪄᪅᪆᪇᪈᪉",
       "᪐᪑᪒᪓᪔᪕᪖᪗᪘᪙",
       "᮰᮱᮲᮳᮴᮵᮶᮷᮸᮹",
       "ᯐᯑᯒᯓᯔᯕᯖᯗᯘᯙ",
       "᳀᳁᳂᳃᳄᳅᳆᳇᳈᳉",
       "᳐᳑᳒᳓᳔᳕᳖᳗᳘᳙",
       "ꚠꚡꚢꚣꚤꚥꚦꚧꚨꚩ",
       "꣐꣑꣒꣓꣔꣕꣖꣗꣘꣙",
       "ꦀꦁꦂꦃꦄꦅꦆꦇꦈꦉ",
       "꧐꧑꧒꧓꧔꧕꧖꧗꧘꧙",
       "꧰꧱꧲꧳꧴꧵꧶꧷꧸꧹",
       "꫐꫑꫒꫓꫔꫕꫖꫗꫘꫙",
       "꯰꯱꯲꯳꯴꯵꯶꯷꯸꯹",
       "ﾐﾑﾒﾓﾔﾕﾖﾗﾘﾙ" >>

Digit == {Char(Decimals[r], i) : r \in 1..Len(Decimals), i \in 1..10}

\* The characters str.isdigit() takes and \d does not: superscript,
\* subscript, circled and parenthesized digits and the like
OtherDigits ==
    "²³¹᧚⃰⃴⃵⃶⃷⃸⃹⒈⒉⒊⒋⒌⒍⒎⒏⒐⓪⓵⓶⓷⓸⓹⓺⓻⓼⓽⓿➀➁➂➃➄➅➆➇➈" \o
    "➊➋➌➍➎➏➐➑➒⟶⟷⟸⟹⟺⟻⟼⟽⟾"

\* The letters that str.lower() changes, and at the same place of LowerCase
\* what it makes of each
UpperCase ==
    "ABCDEFGHIJKLMNOPQRSTUVWXYZÀÁÂÃÄÅÆÇÈÉÊËÌÍ" \o
    "ÎÏÐÑÒÓÔÕÖØÙÚÛÜÝÞƀƂƄƆƈƊƌƎƐƒƔƖƘƚƜƞƠƢƤƦƩƪƬƮ" \o
    "ƲƴƶƹƻƽƿǁǃǅǇǊǌǎǐǒǔǖǘǚǜǞǠǢǤǦǨǪǬǮǰǲǴǶǸǹǻǽʀʄ" \o
    "ʆʈʌʎʐʒʔʖʘʚʜʞʢʤʦʨʪʬʮʲʻˁˆˊˌˎΆΈΉΊΌΎΏΑΒΓΔΕΖΗ" \o
    "ΘΙΚΛΜΝΞΟΠΡΣΤΥΦΧΨΩΫϏϘϚϜϞϠϢϤϦϨϪϬϮϰϲ϶ϹϿҀҁ҂҃" \o
    "҄҅҆҇҈҉ҊҋҌҍҎҏҐґҒғҔҕҖҗҘҙҚқҜҝҞҟҠҡҢңҤҥҦҧҨҩҪҫ" \o
    "ҬҭҮүӠӢӤӦӨӪӬӮӰӲӴӶӸӺӼӾ֊֌֎֐־׀׃׆׈׉׊׋׌׍׎׏ႠႡႢႣ" \o
    "ႤႥႦႧႨႩႪႫႬႭႮႯႰႱႲႳႴႵႶႷႸႹႺႻႼႽႾႿჍᎪᎫᎬᎭᎮᎯᎰᎱᎲᎳᎴ" \o
    "ᎵᎶᎷᎸᎹᎺᎻᎼᎽᎾᎿᏀᏁᏂᏃᏄᏅᏆᏇᏈᏉᏊᏋᏌᏍᏎᏏᏐᏑᏒᏓᏔᏕᏖᏗᏘᏙᏚᏛᏜ" \o
    "ᏝᏞᏟᏠᏡᏢᏣᏤᏥᏦᏧᏨᏩᏪᏫᏬᏭᏮᏯᏰᏱᏲᏳᏴᏵᲐᲑᲒᲓᲔᲕᲖᲗᲘᲙᲚᲛᲜᲝᲞ" \o
    "ᲟᲠᲡᲢᲣᲤᲥᲦᲧᲨᲩᲪᲫᲬᲭᲮᲯᲰᲱᲲᲳᲴᲵᲶᲷᲸᲹᲺᲽᲾᲿẀẂẄẆẈẊẌẎẐ" \o
    "ẒẔẞẠẢẤẦẨẪẬẮẰẲẴẶẸẺẼẾỀỂỄỆỈỊỌỎỐỒỔỖỘỚỜỞỠỢỤỦỨ" \o
    "ỪỬỮỰỲỴỶỸỺỼỾᾈᾉᾊᾋᾌᾍᾎᾏᾘᾙᾚᾛᾜᾝᾞᾟᾨᾩᾪᾫᾬᾭᾮᾯᾸᾹᾺΆᾼ" \o
    "ῈΈῊΉῌῘῙῚΊῨῩῪΎῬῼↃ↦↪↫↲⇠⇡⇢⇣⇤⇥⇦⇧⇨⇩⇪⇫⇬⇭⇮⇯ⒶⒷⒸⒹ" \o
    "ⒺⒻⒼⒽⒾⒿⓀⓁⓂⓃⓄⓅⓆⓇⓈⓉⓊⓋⓌⓍⓎⓏⲀⲂⲄⲆⲈⲊⲌⲎⲐⲒⲔⲖⲘⲚⲜⲞⲠⲢ" \o
    "ⲤⲦⲨⲪⲬⲮⲰⲲⲴⲶⲸⲺⲼⲾⳀⳂⳄⳆⳈⳊⳌⳎⳐⳒⳔⳖⳘⳚⳜⳞⳠⳢ⳧⳩ⳫⳭⳲ⳵⳾⳿" \o
    "ꚀꚂꚄꚆꚈꚊꚌꚎꚐꚒꚔꚖꚘꚚꞀꞂꞄꞆꞋꞍꞐꞒꞖꞘꞚꞜꞞꞠꞢꞤꞦꞨꞪꞫꞬꞭꞮꞲꞴꞶ" \o
    "ꞸꞺꞼꞾꟀꟂꟄꟅꟆꟇꟉꟌ꟎Ꟑ꟒꟔ꟖꟘꟚꟜ꟞꟠꟢꟤꟦꟨꟪꟬꟮Ꟶ"

LowerCase ==
    "abcdefghijklmnopqrstuvwxyzàáâãäåæçèéêëìí" \o
    "îïðñòóôõöøùúûüýþƁƃƅƇƉƋƍƏƑƓƕƗƙƛƝƟơƣƥƧʃƫƭƯ" \o
    "ƳƵƷƺƼƾǀǂǄǆǈǋǍǏǑǓǕǗǙǛǝǟǡǣǥǧǩǫǭǯǱǳǵǷÿǺǼǾʁʅ" \o
    "ʇʉʍʏʑʓʕʗʙʛʝʟʣʥʧʩʫʭʯʳʼ˂ˇˋˍˏάέήίόύώαβγδεζη" \o
    "θικλμνξοπρστυφχψωϋϗϙϛϝϟϡϣϥϧϩϫϭϯϱϳϷϲϽӐӑӒӓ" \o
    "ӔӕӖӗӘәӚӛӜӝӞӟҰұҲҳҴҵҶҷҸҹҺһҼҽҾҿӀӁӂӃӄӅӆӇӈӉӊӋ" \o
    "ӌӍӎӏӡӣӥӧөӫӭӯӱӳӵӷӹӻӽӿ֋֍֏֑׮װ׳׶׸׹׺׻׼׽׾׿ⶀⶁⶂⶃ" \o
    "ⶄⶅⶆⶇⶈⶉⶊⶋⶌⶍⶎⶏⶐⶑⶒⶓⶔⶕⶖ⶗⶘⶙⶚⶛⶜⶝⶞⶟ⶭ꯺꯻꯼꯽꯾꯿ꮀꮁꮂꮃꮄ" \o
    "ꮅꮆꮇꮈꮉꮊꮋꮌꮍꮎꮏꮐꮑꮒꮓꮔꮕꮖꮗꮘꮙꮚꮛꮜꮝꮞꮟꮠꮡꮢꮣꮤꮥꮦꮧꮨꮩꮪꮫꮬ" \o
    "ꮭꮮꮯꮰꮱꮲꮳꮴꮵꮶꮷꮸꮹꮺꮻꮼꮽꮾꮿᏸᏹᏺᏻᏼᏽაბგდევზთიკლმნოპ" \o
    "ჟრსტუფქღყშჩცძწჭხჯჰჱჲჳჴჵჶჷჸჹჺჽჾჿẁẃẅẇẉẋẍẏẑ" \o
    "ẓẕßạảấầẩẫậắằẳẵặẹẻẽếềểễệỉịọỏốồổỗộớờởỡợụủứ" \o
    "ừửữựỳỵỷỹỻỽỿᾀᾁᾂᾃᾄᾅᾆᾇᾐᾑᾒᾓᾔᾕᾖᾗᾠᾡᾢᾣᾤᾥᾦᾧᾰᾱ῰῱ᾳ" \o
    "ῲῳῴ῵ῃῐῑῶῷῠῡῺΏῥῳↄωkå⇎⇰⇱⇲⇳⇴⇵⇶⇷⇸⇹⇺⇻⇼⇽⇾⇿ⓐⓑⓒⓓ" \o
    "ⓔⓕⓖⓗⓘⓙⓚⓛⓜⓝⓞⓟⓠⓡⓢⓣⓤⓥⓦⓧⓨⓩⲁⲃⲅⲇⲉⲋⲍⲏⲑⲓⲕⲗⲙⲛⲝⲟⲡⲣ" \o
    "ⲥⲧⲩⲫⲭⲯⲱⲳⲵⲷⲹⲻⲽⲿⳁⳃⳅⳇⳉⳋⳍⳏⳑⳓⳕⳗⳙⳛⳝⳟⳡⳣ⳨⳪ⳬⳮⳳ⳶ʿˀ" \o
    "ꚁꚃꚅꚇꚉꚋꚍꚏꚑꚓꚕꚗꚙꚛꞁꞃꞅꞇꞌ˥ꞑꞓꞗꞙꞛꞝꞟꞡꞣꞥꞧꞩ˦˜ˡˬ˪Ꭓꞵꞷ" \o
    "ꞹꞻꞽꞿꟁꟃꞔʂᶎꟈꟊꟍ꟏ꟑꟓꟕꟗꟙꟛ꟝꟟꟡꟣꟥꟧꟩꟫꟭꟯ꟶ"

Upper == {Char(UpperCase, i) : i \in 1..Len(UpperCase)}

\* The other letters and numerals: those that str.lower() leaves as they are
\* and that are the lower case of no letter, in rows of 40, the last row
\* filled with its last letter.  Vowel signs, viramas and the other
\* combining marks are not letters.
OtherLetters ==
    << "ªµº¼½¾ƨưƱƸǉǿʊʋʠʡʰʱʴʵʶʷʸʹʺʽʾˈˉːˑ˒˓˔˕˖˗˘˙˚",
       "˛˝˞˟ˠˢˣˤ˧˨˩˫˭ˮ˯˰˱˲˳˴˵˶˷˸˹˺˻˼˽˾˿ΐΰςϊϐϑϒϓϔ",
       "ϕϖϴϸϺϻϼրցւփքօֆևֈ։אבגדהוזחטיךכלםמןנסעףפץצ",
       "קרשת׫׬׭ׯױײ׵׷ڀځڂڃڄڅچڇڈډڊڋڌڍڎڏڐڑڒړڔڕږڗژڙښڛ",
       "ڜڝڞڟڠڡڢڣڤڥڦڧڨکڪګڬڭڮگڰڱڲڳڴڵڶڷڸڹںڻڼڽھڿۀہۂۃ",
       "ۄۅۆۇۈۉۊۋیۍێۏېۑےۓەۮۯۺۻۼ۽۾ۿހށނރބޅކއވމފދތލގ",
       "ޏސޑޒޓޔޕޖޗޘޙޚޛޜޝޞޟޠޡޢޣޤޥޱߊߋߌߍߎߏߐߑߒߓߔߕߖߗߘߙ",
       "ߚߛߜߝߞߟߠߡߢߣߤߥߦߧߨߩߪߴߵ߶߷߸߹ߺ߻߼߾߿ࢀࢁࢂࢃࢄࢅࢆࢇࢉࢊࢋࢌ",
       "ࢍࢎ࢏࢒࢓࢔࢕ࢠࢡࢢࢣࢤࢥࢦࢧࢨࢩࢪࢫࢬࢭࢮࢯࢰࢱࢲࢳࢴࢵࢶࢷࢸࢹࢺࢻࢼࢽࢾࢿࣀ",
       "ࣁࣂࣃࣄࣅࣆࣇࣈࣉ঄অআইঈউঊঋঌ঍঎এঐ঑঒ওঔকখগঘঙচছজঝঞটঠডঢ",
       "ণতথদধন঩পফবভমযর঱ল঳঴঵শষসহঽ৐৘৙৚৛ড়ঢ়৞য়ৠৡৱ৲৳৴৵",
       "৶৷৸৹৺৻ৼ৽৾৿અઆઇઈઉઊઋઌઍએઐઑઓઔકખગઘઙચછજઝઞટઠડઢણત",
       "થદધનપફબભમયરલળવશષસહઽૐ૙૚૛૜૞ૠૡ૲૳૴ૹஃஅஆஇஈஉஊ஋஌",
       "எஏஐஒஓஔக஖஗஘ஙச஛ஜ஝ஞட஠஡஢ணத஥஦஧நனப஫஬஭மயரறலளழவஶ",
       "ஷஸஹ஽ௐ௜௝௟௠௡௰௱௲ಅಆಇಈಉಊಋಌಎಏಐಒಓಔಕಖಗಘಙಚಛಜಝಞಟಠಡ",
       "ಢಣತಥದಧನಪಫಬಭಮಯರಱಲಳ಴ವಶಷಸಹಽ೘೙೚ೝೞೠೡೱೲ೸೹೺೻೼೽೾",
       "඄අආඇඈඉඊඋඌඍඎඏඐඑඒඓඔඕඖ඗඘඙කඛගඝඞඟචඡජඣඤඥඦටඨඩඪණ",
       "ඬතථදධන඲ඳපඵබභමඹයරලවශෂසහළෆ෎෕ෘෙේෛොෝෞෟ෠෡෰෱ෲෳ",
       "෴෵෶෷෸෺෻෼෽෾෿ກຂ຃ຄ຅ຆງຈຉຊ຋ຌຍຎຏຐຑຒຓດຕຖທຘນບປຜຝ",
       "ພຟຠມຢຣ຤ລ຦ວຨຩສຫຬອຮຯະາຳຽເແໂໃໄ໅ໆໜໝໞໟྈྉྊྋྌ࿀࿁",
       "࿂࿃࿄࿅࿇࿉࿊࿋࿌࿍࿎࿏࿐࿑࿒࿓࿔࿕࿖࿗࿘࿙࿚࿛࿜࿝࿞࿟࿠࿡࿢࿣࿤࿥࿦࿧࿨࿩࿪࿫",
       "࿬ႀႁႃႄႇႈႉႊႋႌႎႏႚႛႜ႞႟჻ჼᆀᆁᆂᆃᆄᆅᆆᆇᆈᆉᆊᆋᆌᆍᆎᆏᆐᆑᆒᆓ",
       "ᆔᆕᆖᆗᆘᆙᆚᆛᆜᆝᆞᆟᆠᆡᆢᆣᆤᆥᆦᆧᆨᆩᆪᆫᆬᆭᆮᆯᆰᆱᆲᆳᆴᆵᆶᆷᆸᆹᆺᆻ",
       "ᆼᆽᆾᆿᇀᇁᇂᇃᇄᇅᇆᇇᇈᇉᇊᇋᇌᇍᇎᇏᇐᇑᇒᇓᇔᇕᇖᇗᇘᇙᇚᇛᇜᇝᇞᇟᇠᇡᇢᇣ",
       "ᇤᇥᇦᇧᇨᇩᇪᇫᇬᇭᇮᇯᇰᇱᇲᇳᇴᇵᇶᇷᇸᇹᇺᇻᇼᇽᇾᇿኀኁኂኃኄኅኆኇኈ኉ኊኋ",
       "ኌኍ኎኏ነኑኒናኔንኖኗኘኙኚኛኜኝኞኟአኡኢኣኤእኦኧከኩኪካኬክኮኯኰ኱ኲኳ",
       "ኴኵ኶኷ኸኹኺኻኼኽኾ኿ዀ዁ዂዃዄዅ዆዇ወዉዊዋዌውዎዏዐዑዒዓዔዕዖዘዙዚዛዜ",
       "ዝዞዟዠዡዢዣዤዥዦዧየዩዪያዬይዮዯደዱዲዳዴድዶዷዸዹዺዻዼዽዾዿᎀᎁᎂᎃᎄ",
       "ᎅᎆᎇᎈᎉᎊᎋᎌᎍᎎᎏ᎐᎒᎓᎔᎕᎘᎙᎚᎛᎜᎝᎞᎟ᎠᎡᎢᎣᎤᎥᎦᎧᎨᎩ᏶᏷ᒀᒁᒂᒃ",
       "ᒄᒅᒆᒇᒈᒉᒊᒋᒌᒍᒎᒏᒐᒑᒒᒓᒔᒕᒖᒗᒘᒙᒚᒛᒜᒝᒞᒟᒠᒡᒢᒣᒤᒥᒦᒧᒨᒩᒪᒫ",
       "ᒬᒭᒮᒯᒰᒱᒲᒳᒴᒵᒶᒷᒸᒹᒺᒻᒼᒽᒾᒿᓀᓁᓂᓃᓄᓅᓆᓇᓈᓉᓊᓋᓌᓍᓎᓏᓐᓑᓒᓓ",
       "ᓔᓕᓖᓗᓘᓙᓚᓛᓜᓝᓞᓟᓠᓡᓢᓣᓤᓥᓦᓧᓨᓩᓪᓫᓬᓭᓮᓯᓰᓱᓲᓳᓴᓵᓶᓷᓸᓹᓺᓻ",
       "ᓼᓽᓾᓿᖀᖁᖂᖃᖄᖅᖆᖇᖈᖉᖊᖋᖌᖍᖎᖏᖐᖑᖒᖓᖔᖕᖖᖗᖘᖙᖚᖛᖜᖝᖞᖟᖠᖡᖢᖣ",
       "ᖤᖥᖦᖧᖨᖩᖪᖫᖬᖭᖮᖯᖰᖱᖲᖳᖴᖵᖶᖷᖸᖹᖺᖻᖼᖽᖾᖿᗀᗁᗂᗃᗄᗅᗆᗇᗈᗉᗊᗋ",
       "ᗌᗍᗎᗏᗐᗑᗒᗓᗔᗕᗖᗗᗘᗙᗚᗛᗜᗝᗞᗟᗠᗡᗢᗣᗤᗥᗦᗧᗨᗩᗪᗫᗬᗭᗮᗯᗰᗱᗲᗳ",
       "ᗴᗵᗶᗷᗸᗹᗺᗻᗼᗽᗾᗿᚁᚂᚃᚄᚅᚆᚇᚈᚉᚊᚋᚌᚍᚎᚏᚐᚑᚒᚓᚔᚕᚖᚗᚘᚙᚚ᚛᚜",
       "᚝᚞᚟ᚠᚡᚢᚣᚤᚥᚦᚧᚨᚩᚪᚫᚬᚭᚮᚯᚰᚱᚲᚳᚴᚵᚶᚷᚸᚹᚺᚻᚼᚽᚾᚿᛀᛁᛂᛃᛄ",
       "ᛅᛆᛇᛈᛉᛊᛋᛌᛍᛎᛏᛐᛑᛒᛓᛔᛕᛖᛗᛘᛙᛚᛛᛜᛝᛞᛟᛠᛡᛢᛣᛤᛥᛦᛧᛨᛩᛪ᛫᛬",
       "ᛮᛯᛰᛱᛲᛳᛴᛵᛶᛷᛸ᛹᛺᛻᛼᛽᛾᛿កខគឃងចឆជឈញដឋឌឍណតថទធនបផ",
       "ពភមយរលវឝឞសហឡអឣឤឥឦឧឨឩឪឫឬឭឮឯឰឱឲឳៀេែៃោៅះៈៗៜ",
       "៪៫៬៮៯៰៱៲៳៴៵៶៷៸៹ᢀᢁᢂᢃᢄᢇᢈᢉᢊᢋᢌᢍᢎᢏᢚᢛᢜᢝᢞᢟᢠᢡᢢᢣᢤ",
       "ᢥᢦᢧᢨᢪ᢫᢬᢭᢮᢯ᢰᢱᢲᢳᢴᢵᢶᢷᢸᢹᢺᢻᢼᢽᢾᢿᣀᣁᣂᣃᣄᣅᣆᣇᣈᣉᣊᣋᣌᣍ",
       "ᣎᣏᣐᣑᣒᣓᣔᣕᣖᣗᣘᣙᣚᣛᣜᣝᣞᣟᣠᣡᣢᣣᣤᣥᣦᣧᣨᣩᣪᣫᣬᣭᣮᣯᣰᣱᣲᣳᣴᣵ",
       "᣶᣷᣸ᦀᦁᦂᦃᦄᦅᦆᦇᦈᦉᦊᦋᦌᦍᦎᦏᦐᦑᦒᦓᦔᦕᦖᦗᦘᦙᦚᦛᦜᦝᦞᦟᦠᦡᦢᦣᦤ",
       "ᦥᦦᦧᦨᦩᦪᦫᦰᦱᦲᦳᦴᦵᦶᦷᦸᦹᦺᦻᦼᦽᦾᦿᧀᧁᧂᧃᧄᧅ᧛᧜᧝᧞᧟᧠᧡᧢᧣᧤᧥",
       "᧦᧧᧨᧩᧪᧫᧬᧭᧰᧱᧲᧳᧴᪊᪋᪌᪍᪎᪏᪠᪡᪢᪣᪤᪥᪦ᪧ᪨᪩᪪᪫᪬᪭᪮᪯᫏᫐᫑᫒᫓",
       "᫔ᮃᮄᮅᮆᮇᮈᮉᮊᮋᮌᮍᮎᮏᮐᮑᮒᮓᮔᮕᮖᮗᮘᮙᮚᮛᮜᮝᮞᮟᮠᮡᮦᮧ᮪ᮮᮯᮺᮻᮼ",
       "ᮽᮾᮿᯀᯁᯂᯃᯄᯅᯆᯇᯈᯉᯊᯋᯌᯍᯎᯏᯚᯛᯜᯝᯞᯟᯠᯡᯢᯣᯤᯥᲀᲁᲂᲃᲄᲅᲆᲇᲈ",
       "Ᲊᲊ᲋᲌᲍᲎᲏᳍᳎᳏᳡ᳩᳪᳫᳬᳮᳯᳰᳱᳲᳳᳵᳶ᳷ᳺ᳻᳼᳽ᶀᶁᶂᶃᶄᶅᶆᶇᶈᶉᶊᶋ",
       "ᶌᶍᶏᶐᶑᶒᶓᶔᶕᶖᶗᶘᶙᶚᶛᶜᶝᶞᶟᶠᶡᶢᶣᶤᶥᶦᶧᶨᶩᶪᶫᶬᶭᶮᶯᶰᶱᶲᶳᶴ",
       "ᶵᶶᶷᶸᶹᶺᶻᶼᶽᶾᶿẖẗẘẙẚẛẜẝẟᾲᾴ᾵ᾶᾷιῂῄ῅ῆῇῒΐ῔῕ῖῗῢΰῤ",
       "ῦῧῸΌₐₑₒₓₔₕₖₗₘₙₚₛₜ⃱⃿ↀↁↂↅↆↇↈ↉↊↋↌↍↎↏←↑→↓↕↙↚",
       "↛↜↝↤↨↬↭↯↰↱↳↴↵↶↷↸↹↼↽↾↿⇅⇆⇇⇈⇉⇐⇑⇒⇓⇔⇕⇖⇗⇘⇙⇚⇛⇜⇝",
       "⇞⇟⒀⒁⒂⒃⒄⒅⒆⒇⒑⒒⒓⒔⒕⒖⒗⒘⒙⒚⒛⓫⓬⓭⓮⓯⓰⓱⓲⓳⓴⓾➉➓⟿ⳤ⳥⳦⳴⳷",
       "⳸⳹⳺⳻⳼⳽ⶠⶡⶢⶣⶤⶥⶦ⶧ⶨⶩⶪⶫⶬⶮⶰⶱⶲⶳⶴⶵⶶ⶷ⶸⶹⶺⶻⶼⶽⶾ⶿ⷀⷁⷂⷃ",
       "ⷄⷅⷆ⷇ⷈⷉⷊⷋⷌⷍⷎ⷏ⷐⷑⷒⷓⷔⷕⷖ⷗ⷘⷙⷚⷛⷜⷝⷞ⷟⺯めもゃやゅゆょよらりる",
       "れろゎわゐゑをんゔゕゖゝゞゟァアィイゥウェエォオカガキギクグケゲコゴサザシジスズ",
       "セゼソゾタダチヂッツヅテデトドナニヌネノハバパヒビピフブプヘベペホボポマミムメモ",
       "ャヤュユョヨラリルレロヮワヰヱヲンヴヵヶヷヸヹヺ・ーヽヾヿㆀㆁㆂㆃㆄㆅㆆㆇㆈㆉㆊ",
       "ㆋㆌㆍㆎ㆏㆐㆑㆒㆓㆔㆕㆖㆗㆘㆙㆚㆛㆜㆝㆞㆟ㆠㆡㆢㆣㆤㆥㆦㆧㆨㆩㆪㆫㆬㆭㆮㆯㆰㆱㆲ",
       "ㆳㆴㆵㆶㆷㆸㆹㆺㆻㆼㆽㆾㆿ㇀㇁㇂㇃㇄㇅㇆㇇㇈㇉㇊㇋㇌㇍㇎㇏㇐㇑㇒㇓㇔㇕㇖㇗㇘㇙㇚",
       "㇛㇜㇝㇞㇟㇠㇡㇢㇣㇤㇥㇦㇧㇨㇩㇪㇫㇬㇭㇮㇯ㇰㇱㇲㇳㇴㇵㇶㇷㇸㇹㇺㇻㇼㇽㇾㇿ㊀㊁㊂",
       "㊃㊄㊅㊆㊇㊈㊉㊠㊡㊢㊣㊤㊥㊦㊧㊨㊩㊱㊲㊳㊴㊵㊶㊷㊸㊹㊺㊻㊼㊽㊾㊿㋈㋉㋊㋋㋌㋍㋎㋏",
       "㋑㋒㋓㋔㋕㋖㋗㋘㋙㋚㋛㋜㋝㋞㋟㒀㒁㒂㒃㒄㒅㒆㒇㒈㒉㒊㒋㒌㒍㒎㒏㒐㒑㒒㒓㒔㒕㒖㒗㒘",
       "㒙㒚㒛㒜㒝㒞㒟㒠㒡㒢㒣㒤㒥㒦㒧㒨㒩㒪㒫㒬㒭㒮㒯㒰㒱㒲㒳㒴㒵㒶㒷㒸㒹㒺㒻㒼㒽㒾㒿㓀",
       "㓁㓂㓃㓄㓅㓆㓇㓈㓉㓊㓋㓌㓍㓎㓏㓐㓑㓒㓓㓔㓕㓖㓗㓘㓙㓚㓛㓜㓝㓞㓟㓠㓡㓢㓣㓤㓥㓦㓧㓨",
       "㓩㓪㓫㓬㓭㓮㓯㓰㓱㓲㓳㓴㓵㓶㓷㓸㓹㓺㓻㓼㓽㓾㓿㖀㖁㖂㖃㖄㖅㖆㖇㖈㖉㖊㖋㖌㖍㖎㖏㖐",
       "㖑㖒㖓㖔㖕㖖㖗㖘㖙㖚㖛㖜㖝㖞㖟㖠㖡㖢㖣㖤㖥㖦㖧㖨㖩㖪㖫㖬㖭㖮㖯㖰㖱㖲㖳㖴㖵㖶㖷㖸",
       "㖹㖺㖻㖼㖽㖾㖿㗀㗁㗂㗃㗄㗅㗆㗇㗈㗉㗊㗋㗌㗍㗎㗏㗐㗑㗒㗓㗔㗕㗖㗗㗘㗙㗚㗛㗜㗝㗞㗟㗠",
       "㗡㗢㗣㗤㗥㗦㗧㗨㗩㗪㗫㗬㗭㗮㗯㗰㗱㗲㗳㗴㗵㗶㗷㗸㗹㗺㗻㗼㗽㗾㗿㚀㚁㚂㚃㚄㚅㚆㚇㚈",
       "㚉㚊㚋㚌㚍㚎㚏㚐㚑㚒㚓㚔㚕㚖㚗㚘㚙㚚㚛㚜㚝㚞㚟㚠㚡㚢㚣㚤㚥㚦㚧㚨㚩㚪㚫㚬㚭㚮㚯㚰",
       "㚱㚲㚳㚴㚵㚶㚷㚸㚹㚺㚻㚼㚽㚾㚿㛀㛁㛂㛃㛄㛅㛆㛇㛈㛉㛊㛋㛌㛍㛎㛏㛐㛑㛒㛓㛔㛕㛖㛗㛘",
       "㛙㛚㛛㛜㛝㛞㛟㛠㛡㛢㛣㛤㛥㛦㛧㛨㛩㛪㛫㛬㛭㛮㛯㛰㛱㛲㛳㛴㛵㛶㛷㛸㛹㛺㛻㛼㛽㛾㛿㞀",
       "㞁㞂㞃㞄㞅㞆㞇㞈㞉㞊㞋㞌㞍㞎㞏㞐㞑㞒㞓㞔㞕㞖㞗㞘㞙㞚㞛㞜㞝㞞㞟㞠㞡㞢㞣㞤㞥㞦㞧㞨",
       "㞩㞪㞫㞬㞭㞮㞯㞰㞱㞲㞳㞴㞵㞶㞷㞸㞹㞺㞻㞼㞽㞾㞿㟀㟁㟂㟃㟄㟅㟆㟇㟈㟉㟊㟋㟌㟍㟎㟏㟐",
       "㟑㟒㟓㟔㟕㟖㟗㟘㟙㟚㟛㟜㟝㟞㟟㟠㟡㟢㟣㟤㟥㟦㟧㟨㟩㟪㟫㟬㟭㟮㟯㟰㟱㟲㟳㟴㟵㟶㟷㟸",
       "㟹㟺㟻㟼㟽㟾㟿㢀㢁㢂㢃㢄㢅㢆㢇㢈㢉㢊㢋㢌㢍㢎㢏㢐㢑㢒㢓㢔㢕㢖㢗㢘㢙㢚㢛㢜㢝㢞㢟㢠",
       "㢡㢢㢣㢤㢥㢦㢧㢨㢩㢪㢫㢬㢭㢮㢯㢰㢱㢲㢳㢴㢵㢶㢷㢸㢹㢺㢻㢼㢽㢾㢿㣀㣁㣂㣃㣄㣅㣆㣇㣈",
       "㣉㣊㣋㣌㣍㣎㣏㣐㣑㣒㣓㣔㣕㣖㣗㣘㣙㣚㣛㣜㣝㣞㣟㣠㣡㣢㣣㣤㣥㣦㣧㣨㣩㣪㣫㣬㣭㣮㣯㣰",
       "㣱㣲㣳㣴㣵㣶㣷㣸㣹㣺㣻㣼㣽㣾㣿㦀㦁㦂㦃㦄㦅㦆㦇㦈㦉㦊㦋㦌㦍㦎㦏㦐㦑㦒㦓㦔㦕㦖㦗㦘",
       "㦙㦚㦛㦜㦝㦞㦟㦠㦡㦢㦣㦤㦥㦦㦧㦨㦩㦪㦫㦬㦭㦮㦯㦰㦱㦲㦳㦴㦵㦶㦷㦸㦹㦺㦻㦼㦽㦾㦿㧀",
       "㧁㧂㧃㧄㧅㧆㧇㧈㧉㧊㧋㧌㧍㧎㧏㧐㧑㧒㧓㧔㧕㧖㧗㧘㧙㧚㧛㧜㧝㧞㧟㧠㧡㧢㧣㧤㧥㧦㧧㧨",
       "㧩㧪㧫㧬㧭㧮㧯㧰㧱㧲㧳㧴㧵㧶㧷㧸㧹㧺㧻㧼㧽㧾㧿㪀㪁㪂㪃㪄㪅㪆㪇㪈㪉㪊㪋㪌㪍㪎㪏㪐",
       "㪑㪒㪓㪔㪕㪖㪗㪘㪙㪚㪛㪜㪝㪞㪟㪠㪡㪢㪣㪤㪥㪦㪧㪨㪩㪪㪫㪬㪭㪮㪯㪰㪱㪲㪳㪴㪵㪶㪷㪸",
       "㪹㪺㪻㪼㪽㪾㪿㫀㫁㫂㫃㫄㫅㫆㫇㫈㫉㫊㫋㫌㫍㫎㫏㫐㫑㫒㫓㫔㫕㫖㫗㫘㫙㫚㫛㫜㫝㫞㫟㫠",
       "㫡㫢㫣㫤㫥㫦㫧㫨㫩㫪㫫㫬㫭㫮㫯㫰㫱㫲㫳㫴㫵㫶㫷㫸㫹㫺㫻㫼㫽㫾㫿㮀㮁㮂㮃㮄㮅㮆㮇㮈",
       "㮉㮊㮋㮌㮍㮎㮏㮐㮑㮒㮓㮔㮕㮖㮗㮘㮙㮚㮛㮜㮝㮞㮟㮠㮡㮢㮣㮤㮥㮦㮧㮨㮩㮪㮫㮬㮭㮮㮯㮰",
       "㮱㮲㮳㮴㮵㮶㮷㮸㮹㮺㮻㮼㮽㮾㮿㯀㯁㯂㯃㯄㯅㯆㯇㯈㯉㯊㯋㯌㯍㯎㯏㯐㯑㯒㯓㯔㯕㯖㯗㯘",
       "㯙㯚㯛㯜㯝㯞㯟㯠㯡㯢㯣㯤㯥㯦㯧㯨㯩㯪㯫㯬㯭㯮㯯㯰㯱㯲㯳㯴㯵㯶㯷㯸㯹㯺㯻㯼㯽㯾㯿㲀",
       "㲁㲂㲃㲄㲅㲆㲇㲈㲉㲊㲋㲌㲍㲎㲏㲐㲑㲒㲓㲔㲕㲖㲗㲘㲙㲚㲛㲜㲝㲞㲟㲠㲡㲢㲣㲤㲥㲦㲧㲨",
       "㲩㲪㲫㲬㲭㲮㲯㲰㲱㲲㲳㲴㲵㲶㲷㲸㲹㲺㲻㲼㲽㲾㲿㳀㳁㳂㳃㳄㳅㳆㳇㳈㳉㳊㳋㳌㳍㳎㳏㳐",
       "㳑㳒㳓㳔㳕㳖㳗㳘㳙㳚㳛㳜㳝㳞㳟㳠㳡㳢㳣㳤㳥㳦㳧㳨㳩㳪㳫㳬㳭㳮㳯㳰㳱㳲㳳㳴㳵㳶㳷㳸",
       "㳹㳺㳻㳼㳽㳾㳿㶀㶁㶂㶃㶄㶅㶆㶇㶈㶉㶊㶋㶌㶍㶎㶏㶐㶑㶒㶓㶔㶕㶖㶗㶘㶙㶚㶛㶜㶝㶞㶟㶠",
       "㶡㶢㶣㶤㶥㶦㶧㶨㶩㶪㶫㶬㶭㶮㶯㶰㶱㶲㶳㶴㶵㶶㶷㶸㶹㶺㶻㶼㶽㶾㶿㷀㷁㷂㷃㷄㷅㷆㷇㷈",
       "㷉㷊㷋㷌㷍㷎㷏㷐㷑㷒㷓㷔㷕㷖㷗㷘㷙㷚㷛㷜㷝㷞㷟㷠㷡㷢㷣㷤㷥㷦㷧㷨㷩㷪㷫㷬㷭㷮㷯㷰",
       "㷱㷲㷳㷴㷵㷶㷷㷸㷹㷺㷻㷼㷽㷾㷿㺀㺁㺂㺃㺄㺅㺆㺇㺈㺉㺊㺋㺌㺍㺎㺏㺐㺑㺒㺓㺔㺕㺖㺗㺘",
       "㺙㺚㺛㺜㺝㺞㺟㺠㺡㺢㺣㺤㺥㺦㺧㺨㺩㺪㺫㺬㺭㺮㺯㺰㺱㺲㺳㺴㺵㺶㺷㺸㺹㺺㺻㺼㺽㺾㺿㻀",
       "㻁㻂㻃㻄㻅㻆㻇㻈㻉㻊㻋㻌㻍㻎㻏㻐㻑㻒㻓㻔㻕㻖㻗㻘㻙㻚㻛㻜㻝㻞㻟㻠㻡㻢㻣㻤㻥㻦㻧㻨",
       "㻩㻪㻫㻬㻭㻮㻯㻰㻱㻲㻳㻴㻵㻶㻷㻸㻹㻺㻻㻼㻽㻾㻿㾀㾁㾂㾃㾄㾅㾆㾇㾈㾉㾊㾋㾌㾍㾎㾏㾐",
       "㾑㾒㾓㾔㾕㾖㾗㾘㾙㾚㾛㾜㾝㾞㾟㾠㾡㾢㾣㾤㾥㾦㾧㾨㾩㾪㾫㾬㾭㾮㾯㾰㾱㾲㾳㾴㾵㾶㾷㾸",
       "㾹㾺㾻㾼㾽㾾㾿㿀㿁㿂㿃㿄㿅㿆㿇㿈㿉㿊㿋㿌㿍㿎㿏㿐㿑㿒㿓㿔㿕㿖㿗㿘㿙㿚㿛㿜㿝㿞㿟㿠",
       "㿡㿢㿣㿤㿥㿦㿧㿨㿩㿪㿫㿬㿭㿮㿯㿰㿱㿲㿳㿴㿵㿶㿷㿸㿹㿺㿻㿼㿽㿾㿿䂀䂁䂂䂃䂄䂅䂆䂇䂈",
       "䂉䂊䂋䂌䂍䂎䂏䂐䂑䂒䂓䂔䂕䂖䂗䂘䂙䂚䂛䂜䂝䂞䂟䂠䂡䂢䂣䂤䂥䂦䂧䂨䂩䂪䂫䂬䂭䂮䂯䂰",
       "䂱䂲䂳䂴䂵䂶䂷䂸䂹䂺䂻䂼䂽䂾䂿䃀䃁䃂䃃䃄䃅䃆䃇䃈䃉䃊䃋䃌䃍䃎䃏䃐䃑䃒䃓䃔䃕䃖䃗䃘",
       "䃙䃚䃛䃜䃝䃞䃟䃠䃡䃢䃣䃤䃥䃦䃧䃨䃩䃪䃫䃬䃭䃮䃯䃰䃱䃲䃳䃴䃵䃶䃷䃸䃹䃺䃻䃼䃽䃾䃿䆀",
       "䆁䆂䆃䆄䆅䆆䆇䆈䆉䆊䆋䆌䆍䆎䆏䆐䆑䆒䆓䆔䆕䆖䆗䆘䆙䆚䆛䆜䆝䆞䆟䆠䆡䆢䆣䆤䆥䆦䆧䆨",
       "䆩䆪䆫䆬䆭䆮䆯䆰䆱䆲䆳䆴䆵䆶䆷䆸䆹䆺䆻䆼䆽䆾䆿䇀䇁䇂䇃䇄䇅䇆䇇䇈䇉䇊䇋䇌䇍䇎䇏䇐",
       "䇑䇒䇓䇔䇕䇖䇗䇘䇙䇚䇛䇜䇝䇞䇟䇠䇡䇢䇣䇤䇥䇦䇧䇨䇩䇪䇫䇬䇭䇮䇯䇰䇱䇲䇳䇴䇵䇶䇷䇸",
       "䇹䇺䇻䇼䇽䇾䇿䊀䊁䊂䊃䊄䊅䊆䊇䊈䊉䊊䊋䊌䊍䊎䊏䊐䊑䊒䊓䊔䊕䊖䊗䊘䊙䊚䊛䊜䊝䊞䊟䊠",
       "䊡䊢䊣䊤䊥䊦䊧䊨䊩䊪䊫䊬䊭䊮䊯䊰䊱䊲䊳䊴䊵䊶䊷䊸䊹䊺䊻䊼䊽䊾䊿䋀䋁䋂䋃䋄䋅䋆䋇䋈",
       "䋉䋊䋋䋌䋍䋎䋏䋐䋑䋒䋓䋔䋕䋖䋗䋘䋙䋚䋛䋜䋝䋞䋟䋠䋡䋢䋣䋤䋥䋦䋧䋨䋩䋪䋫䋬䋭䋮䋯䋰",
       "䋱䋲䋳䋴䋵䋶䋷䋸䋹䋺䋻䋼䋽䋾䋿䎀䎁䎂䎃䎄䎅䎆䎇䎈䎉䎊䎋䎌䎍䎎䎏䎐䎑䎒䎓䎔䎕䎖䎗䎘",
       "䎙䎚䎛䎜䎝䎞䎟䎠䎡䎢䎣䎤䎥䎦䎧䎨䎩䎪䎫䎬䎭䎮䎯䎰䎱䎲䎳䎴䎵䎶䎷䎸䎹䎺䎻䎼䎽䎾䎿䏀",
       "䏁䏂䏃䏄䏅䏆䏇䏈䏉䏊䏋䏌䏍䏎䏏䏐䏑䏒䏓䏔䏕䏖䏗䏘䏙䏚䏛䏜䏝䏞䏟䏠䏡䏢䏣䏤䏥䏦䏧䏨",
       "䏩䏪䏫䏬䏭䏮䏯䏰䏱䏲䏳䏴䏵䏶䏷䏸䏹䏺䏻䏼䏽䏾䏿䒀䒁䒂䒃䒄䒅䒆䒇䒈䒉䒊䒋䒌䒍䒎䒏䒐",
       "䒑䒒䒓䒔䒕䒖䒗䒘䒙䒚䒛䒜䒝䒞䒟䒠䒡䒢䒣䒤䒥䒦䒧䒨䒩䒪䒫䒬䒭䒮䒯䒰䒱䒲䒳䒴䒵䒶䒷䒸",
       "䒹䒺䒻䒼䒽䒾䒿䓀䓁䓂䓃䓄䓅䓆䓇䓈䓉䓊䓋䓌䓍䓎䓏䓐䓑䓒䓓䓔䓕䓖䓗䓘䓙䓚䓛䓜䓝䓞䓟䓠",
       "䓡䓢䓣䓤䓥䓦䓧䓨䓩䓪䓫䓬䓭䓮䓯䓰䓱䓲䓳䓴䓵䓶䓷䓸䓹䓺䓻䓼䓽䓾䓿䖀䖁䖂䖃䖄䖅䖆䖇䖈",
       "䖉䖊䖋䖌䖍䖎䖏䖐䖑䖒䖓䖔䖕䖖䖗䖘䖙䖚䖛䖜䖝䖞䖟䖠䖡䖢䖣䖤䖥䖦䖧䖨䖩䖪䖫䖬䖭䖮䖯䖰",
       "䖱䖲䖳䖴䖵䖶䖷䖸䖹䖺䖻䖼䖽䖾䖿䗀䗁䗂䗃䗄䗅䗆䗇䗈䗉䗊䗋䗌䗍䗎䗏䗐䗑䗒䗓䗔䗕䗖䗗䗘",
       "䗙䗚䗛䗜䗝䗞䗟䗠䗡䗢䗣䗤䗥䗦䗧䗨䗩䗪䗫䗬䗭䗮䗯䗰䗱䗲䗳䗴䗵䗶䗷䗸䗹䗺䗻䗼䗽䗾䗿䚀",
       "䚁䚂䚃䚄䚅䚆䚇䚈䚉䚊䚋䚌䚍䚎䚏䚐䚑䚒䚓䚔䚕䚖䚗䚘䚙䚚䚛䚜䚝䚞䚟䚠䚡䚢䚣䚤䚥䚦䚧䚨",
       "䚩䚪䚫䚬䚭䚮䚯䚰䚱䚲䚳䚴䚵䚶䚷䚸䚹䚺䚻䚼䚽䚾䚿䛀䛁䛂䛃䛄䛅䛆䛇䛈䛉䛊䛋䛌䛍䛎䛏䛐",
       "䛑䛒䛓䛔䛕䛖䛗䛘䛙䛚䛛䛜䛝䛞䛟䛠䛡䛢䛣䛤䛥䛦䛧䛨䛩䛪䛫䛬䛭䛮䛯䛰䛱䛲䛳䛴䛵䛶䛷䛸",
       "䛹䛺䛻䛼䛽䛾䛿䞀䞁䞂䞃䞄䞅䞆䞇䞈䞉䞊䞋䞌䞍䞎䞏䞐䞑䞒䞓䞔䞕䞖䞗䞘䞙䞚䞛䞜䞝䞞䞟䞠",
       "䞡䞢䞣䞤䞥䞦䞧䞨䞩䞪䞫䞬䞭䞮䞯䞰䞱䞲䞳䞴䞵䞶䞷䞸䞹䞺䞻䞼䞽䞾䞿䟀䟁䟂䟃䟄䟅䟆䟇䟈",
       "䟉䟊䟋䟌䟍䟎䟏䟐䟑䟒䟓䟔䟕䟖䟗䟘䟙䟚䟛䟜䟝䟞䟟䟠䟡䟢䟣䟤䟥䟦䟧䟨䟩䟪䟫䟬䟭䟮䟯䟰",
       "䟱䟲䟳䟴䟵䟶䟷䟸䟹䟺䟻䟼䟽䟾䟿䢀䢁䢂䢃䢄䢅䢆䢇䢈䢉䢊䢋䢌䢍䢎䢏䢐䢑䢒䢓䢔䢕䢖䢗䢘",
       "䢙䢚䢛䢜䢝䢞䢟䢠䢡䢢䢣䢤䢥䢦䢧䢨䢩䢪䢫䢬䢭䢮䢯䢰䢱䢲䢳䢴䢵䢶䢷䢸䢹䢺䢻䢼䢽䢾䢿䣀",
       "䣁䣂䣃䣄䣅䣆䣇䣈䣉䣊䣋䣌䣍䣎䣏䣐䣑䣒䣓䣔䣕䣖䣗䣘䣙䣚䣛䣜䣝䣞䣟䣠䣡䣢䣣䣤䣥䣦䣧䣨",
       "䣩䣪䣫䣬䣭䣮䣯䣰䣱䣲䣳䣴䣵䣶䣷䣸䣹䣺䣻䣼䣽䣾䣿䦀䦁䦂䦃䦄䦅䦆䦇䦈䦉䦊䦋䦌䦍䦎䦏䦐",
       "䦑䦒䦓䦔䦕䦖䦗䦘䦙䦚䦛䦜䦝䦞䦟䦠䦡䦢䦣䦤䦥䦦䦧䦨䦩䦪䦫䦬䦭䦮䦯䦰䦱䦲䦳䦴䦵䦶䦷䦸",
       "䦹䦺䦻䦼䦽䦾䦿䧀䧁䧂䧃䧄䧅䧆䧇䧈䧉䧊䧋䧌䧍䧎䧏䧐䧑䧒䧓䧔䧕䧖䧗䧘䧙䧚䧛䧜䧝䧞䧟䧠",
       "䧡䧢䧣䧤䧥䧦䧧䧨䧩䧪䧫䧬䧭䧮䧯䧰䧱䧲䧳䧴䧵䧶䧷䧸䧹䧺䧻䧼䧽䧾䧿䪀䪁䪂䪃䪄䪅䪆䪇䪈",
       "䪉䪊䪋䪌䪍䪎䪏䪐䪑䪒䪓䪔䪕䪖䪗䪘䪙䪚䪛䪜䪝䪞䪟䪠䪡䪢䪣䪤䪥䪦䪧䪨䪩䪪䪫䪬䪭䪮䪯䪰",
       "䪱䪲䪳䪴䪵䪶䪷䪸䪹䪺䪻䪼䪽䪾䪿䫀䫁䫂䫃䫄䫅䫆䫇䫈䫉䫊䫋䫌䫍䫎䫏䫐䫑䫒䫓䫔䫕䫖䫗䫘",
       "䫙䫚䫛䫜䫝䫞䫟䫠䫡䫢䫣䫤䫥䫦䫧䫨䫩䫪䫫䫬䫭䫮䫯䫰䫱䫲䫳䫴䫵䫶䫷䫸䫹䫺䫻䫼䫽䫾䫿䮀",
       "䮁䮂䮃䮄䮅䮆䮇䮈䮉䮊䮋䮌䮍䮎䮏䮐䮑䮒䮓䮔䮕䮖䮗䮘䮙䮚䮛䮜䮝䮞䮟䮠䮡䮢䮣䮤䮥䮦䮧䮨",
       "䮩䮪䮫䮬䮭䮮䮯䮰䮱䮲䮳䮴䮵䮶䮷䮸䮹䮺䮻䮼䮽䮾䮿䯀䯁䯂䯃䯄䯅䯆䯇䯈䯉䯊䯋䯌䯍䯎䯏䯐",
       "䯑䯒䯓䯔䯕䯖䯗䯘䯙䯚䯛䯜䯝䯞䯟䯠䯡䯢䯣䯤䯥䯦䯧䯨䯩䯪䯫䯬䯭䯮䯯䯰䯱䯲䯳䯴䯵䯶䯷䯸",
       "䯹䯺䯻䯼䯽䯾䯿䲀䲁䲂䲃䲄䲅䲆䲇䲈䲉䲊䲋䲌䲍䲎䲏䲐䲑䲒䲓䲔䲕䲖䲗䲘䲙䲚䲛䲜䲝䲞䲟䲠",
       "䲡䲢䲣䲤䲥䲦䲧䲨䲩䲪䲫䲬䲭䲮䲯䲰䲱䲲䲳䲴䲵䲶䲷䲸䲹䲺䲻䲼䲽䲾䲿䳀䳁䳂䳃䳄䳅䳆䳇䳈",
       "䳉䳊䳋䳌䳍䳎䳏䳐䳑䳒䳓䳔䳕䳖䳗䳘䳙䳚䳛䳜䳝䳞䳟䳠䳡䳢䳣䳤䳥䳦䳧䳨䳩䳪䳫䳬䳭䳮䳯䳰",
       "䳱䳲䳳䳴䳵䳶䳷䳸䳹䳺䳻䳼䳽䳾䳿䶀䶁䶂䶃䶄䶅䶆䶇䶈䶉䶊䶋䶌䶍䶎䶏䶐䶑䶒䶓䶔䶕䶖䶗䶘",
       "䶙䶚䶛䶜䶝䶞䶟䶠䶡䶢䶣䶤䶥䶦䶧䶨䶩䶪䶫䶬䶭䶮䶯䶰䶱䶲䶳䶴䶵䶶䶷䶸䶹䶺䶻䶼䶽䶾䶿䷀",
       "䷁䷂䷃䷄䷅䷆䷇䷈䷉䷊䷋䷌䷍䷎䷏䷐䷑䷒䷓䷔䷕䷖䷗䷘䷙䷚䷛䷜䷝䷞䷟䷠䷡䷢䷣䷤䷥䷦䷧䷨",
       "䷩䷪䷫䷬䷭䷮䷯䷰䷱䷲䷳䷴䷵䷶䷷䷸䷹䷺䷻䷼䷽䷾䷿亀亁亂亃亄亅了亇予争亊事二亍于亏亐",
       "云互亓五井亖亗亘亙亚些亜亝亞亟亠亡亢亣交亥亦产亨亩亪享京亭亮亯亰亱亲亳亴亵亶亷亸",
       "亹人亻亼亽亾亿什仁仂仃仄仅仆仇仈仉今介仌仍从仏仐仑仒仓仔仕他仗付仙仚仛仜仝仞仟仠",
       "仡仢代令以仦仧仨仩仪仫们仭仮仯仰仱仲仳仴仵件价仸仹仺任仼份仾仿侀侁侂侃侄侅來侇侈",
       "侉侊例侌侍侎侏侐侑侒侓侔侕侖侗侘侙侚供侜依侞侟侠価侢侣侤侥侦侧侨侩侪侫侬侭侮侯侰",
       "侱侲侳侴侵侶侷侸侹侺侻侼侽侾便俀俁係促俄俅俆俇俈俉俊俋俌俍俎俏俐俑俒俓俔俕俖俗俘",
       "俙俚俛俜保俞俟俠信俢俣俤俥俦俧俨俩俪俫俬俭修俯俰俱俲俳俴俵俶俷俸俹俺俻俼俽俾俿傀",
       "傁傂傃傄傅傆傇傈傉傊傋傌傍傎傏傐傑傒傓傔傕傖傗傘備傚傛傜傝傞傟傠傡傢傣傤傥傦傧储",
       "傩傪傫催傭傮傯傰傱傲傳傴債傶傷傸傹傺傻傼傽傾傿僀僁僂僃僄僅僆僇僈僉僊僋僌働僎像僐",
       "僑僒僓僔僕僖僗僘僙僚僛僜僝僞僟僠僡僢僣僤僥僦僧僨僩僪僫僬僭僮僯僰僱僲僳僴僵僶僷僸",
       "價僺僻僼僽僾僿冀冁冂冃冄内円冇冈冉冊冋册再冎冏冐冑冒冓冔冕冖冗冘写冚军农冝冞冟冠",
       "冡冢冣冤冥冦冧冨冩冪冫冬冭冮冯冰冱冲决冴况冶冷冸冹冺冻冼冽冾冿净凁凂凃凄凅准凇凈",
       "凉凊凋凌凍凎减凐凑凒凓凔凕凖凗凘凙凚凛凜凝凞凟几凡凢凣凤凥処凧凨凩凪凫凬凭凮凯凰",
       "凱凲凳凴凵凶凷凸凹出击凼函凾凿劀劁劂劃劄劅劆劇劈劉劊劋劌劍劎劏劐劑劒劓劔劕劖劗劘",
       "劙劚力劜劝办功加务劢劣劤劥劦劧动助努劫劬劭劮劯劰励劲劳労劵劶劷劸効劺劻劼劽劾势勀",
       "勁勂勃勄勅勆勇勈勉勊勋勌勍勎勏勐勑勒勓勔動勖勗勘務勚勛勜勝勞募勠勡勢勣勤勥勦勧勨",
       "勩勪勫勬勭勮勯勰勱勲勳勴勵勶勷勸勹勺勻勼勽勾勿厀厁厂厃厄厅历厇厈厉厊压厌厍厎厏厐",
       "厑厒厓厔厕厖厗厘厙厚厛厜厝厞原厠厡厢厣厤厥厦厧厨厩厪厫厬厭厮厯厰厱厲厳厴厵厶厷厸",
       "厹厺去厼厽厾县叀叁参參叄叅叆叇又叉及友双反収叏叐发叒叓叔叕取受变叙叚叛叜叝叞叟叠",
       "叡叢口古句另叧叨叩只叫召叭叮可台叱史右叴叵叶号司叹叺叻叼叽叾叿咀咁咂咃咄咅咆咇咈",
       "咉咊咋和咍咎咏咐咑咒咓咔咕咖咗咘咙咚咛咜咝咞咟咠咡咢咣咤咥咦咧咨咩咪咫咬咭咮咯咰",
       "咱咲咳咴咵咶咷咸咹咺咻咼咽咾咿哀品哂哃哄哅哆哇哈哉哊哋哌响哎哏哐哑哒哓哔哕哖哗哘",
       "哙哚哛哜哝哞哟哠員哢哣哤哥哦哧哨哩哪哫哬哭哮哯哰哱哲哳哴哵哶哷哸哹哺哻哼哽哾哿喀",
       "喁喂喃善喅喆喇喈喉喊喋喌喍喎喏喐喑喒喓喔喕喖喗喘喙喚喛喜喝喞喟喠喡喢喣喤喥喦喧喨",
       "喩喪喫喬喭單喯喰喱喲喳喴喵営喷喸喹喺喻喼喽喾喿嗀嗁嗂嗃嗄嗅嗆嗇嗈嗉嗊嗋嗌嗍嗎嗏嗐",
       "嗑嗒嗓嗔嗕嗖嗗嗘嗙嗚嗛嗜嗝嗞嗟嗠嗡嗢嗣嗤嗥嗦嗧嗨嗩嗪嗫嗬嗭嗮嗯嗰嗱嗲嗳嗴嗵嗶嗷嗸",
       "嗹嗺嗻嗼嗽嗾嗿嚀嚁嚂嚃嚄嚅嚆嚇嚈嚉嚊嚋嚌嚍嚎嚏嚐嚑嚒嚓嚔嚕嚖嚗嚘嚙嚚嚛嚜嚝嚞嚟嚠",
       "嚡嚢嚣嚤嚥嚦嚧嚨嚩嚪嚫嚬嚭嚮嚯嚰嚱嚲嚳嚴嚵嚶嚷嚸嚹嚺嚻嚼嚽嚾嚿囀囁囂囃囄囅囆囇囈",
       "囉囊囋囌囍囎囏囐囑囒囓囔囕囖囗囘囙囚四囜囝回囟因囡团団囤囥囦囧囨囩囪囫囬园囮囯困",
       "囱囲図围囵囶囷囸囹固囻囼国图囿垀垁垂垃垄垅垆垇垈垉垊型垌垍垎垏垐垑垒垓垔垕垖垗垘",
       "垙垚垛垜垝垞垟垠垡垢垣垤垥垦垧垨垩垪垫垬垭垮垯垰垱垲垳垴垵垶垷垸垹垺垻垼垽垾垿埀",
       "埁埂埃埄埅埆埇埈埉埊埋埌埍城埏埐埑埒埓埔埕埖埗埘埙埚埛埜埝埞域埠埡埢埣埤埥埦埧埨",
       "埩埪埫埬埭埮埯埰埱埲埳埴埵埶執埸培基埻埼埽埾埿墀墁墂境墄墅墆墇墈墉墊墋墌墍墎墏墐",
       "墑墒墓墔墕墖増墘墙墚墛墜墝增墟墠墡墢墣墤墥墦墧墨墩墪墫墬墭墮墯墰墱墲墳墴墵墶墷墸",
       "墹墺墻墼墽墾墿壀壁壂壃壄壅壆壇壈壉壊壋壌壍壎壏壐壑壒壓壔壕壖壗壘壙壚壛壜壝壞壟壠",
       "壡壢壣壤壥壦壧壨壩壪士壬壭壮壯声壱売壳壴壵壶壷壸壹壺壻壼壽壾壿妀妁如妃妄妅妆妇妈",
       "妉妊妋妌妍妎妏妐妑妒妓妔妕妖妗妘妙妚妛妜妝妞妟妠妡妢妣妤妥妦妧妨妩妪妫妬妭妮妯妰",
       "妱妲妳妴妵妶妷妸妹妺妻妼妽妾妿姀姁姂姃姄姅姆姇姈姉姊始姌姍姎姏姐姑姒姓委姕姖姗姘",
       "姙姚姛姜姝姞姟姠姡姢姣姤姥姦姧姨姩姪姫姬姭姮姯姰姱姲姳姴姵姶姷姸姹姺姻姼姽姾姿媀",
       "媁媂媃媄媅媆媇媈媉媊媋媌媍媎媏媐媑媒媓媔媕媖媗媘媙媚媛媜媝媞媟媠媡媢媣媤媥媦媧媨",
       "媩媪媫媬媭媮媯媰媱媲媳媴媵媶媷媸媹媺媻媼媽媾媿嫀嫁嫂嫃嫄嫅嫆嫇嫈嫉嫊嫋嫌嫍嫎嫏嫐",
       "嫑嫒嫓嫔嫕嫖嫗嫘嫙嫚嫛嫜嫝嫞嫟嫠嫡嫢嫣嫤嫥嫦嫧嫨嫩嫪嫫嫬嫭嫮嫯嫰嫱嫲嫳嫴嫵嫶嫷嫸",
       "嫹嫺嫻嫼嫽嫾嫿宀宁宂它宄宅宆宇守安宊宋完宍宎宏宐宑宒宓宔宕宖宗官宙定宛宜宝实実宠",
       "审客宣室宥宦宧宨宩宪宫宬宭宮宯宰宱宲害宴宵家宷宸容宺宻宼宽宾宿寀寁寂寃寄寅密寇寈",
       "寉寊寋富寍寎寏寐寑寒寓寔寕寖寗寘寙寚寛寜寝寞察寠寡寢寣寤寥實寧寨審寪寫寬寭寮寯寰",
       "寱寲寳寴寵寶寷寸对寺寻导寽対寿岀岁岂岃岄岅岆岇岈岉岊岋岌岍岎岏岐岑岒岓岔岕岖岗岘",
       "岙岚岛岜岝岞岟岠岡岢岣岤岥岦岧岨岩岪岫岬岭岮岯岰岱岲岳岴岵岶岷岸岹岺岻岼岽岾岿峀",
       "峁峂峃峄峅峆峇峈峉峊峋峌峍峎峏峐峑峒峓峔峕峖峗峘峙峚峛峜峝峞峟峠峡峢峣峤峥峦峧峨",
       "峩峪峫峬峭峮峯峰峱峲峳峴峵島峷峸峹峺峻峼峽峾峿嶀嶁嶂嶃嶄嶅嶆嶇嶈嶉嶊嶋嶌嶍嶎嶏嶐",
       "嶑嶒嶓嶔嶕嶖嶗嶘嶙嶚嶛嶜嶝嶞嶟嶠嶡嶢嶣嶤嶥嶦嶧嶨嶩嶪嶫嶬嶭嶮嶯嶰嶱嶲嶳嶴嶵嶶嶷嶸",
       "嶹嶺嶻嶼嶽嶾嶿巀巁巂巃巄巅巆巇巈巉巊巋巌巍巎巏巐巑巒巓巔巕巖巗巘巙巚巛巜川州巟巠",
       "巡巢巣巤工左巧巨巩巪巫巬巭差巯巰己已巳巴巵巶巷巸巹巺巻巼巽巾巿庀庁庂広庄庅庆庇庈",
       "庉床庋庌庍庎序庐庑庒库应底庖店庘庙庚庛府庝庞废庠庡庢庣庤庥度座庨庩庪庫庬庭庮庯庰",
       "庱庲庳庴庵庶康庸庹庺庻庼庽庾庿廀廁廂廃廄廅廆廇廈廉廊廋廌廍廎廏廐廑廒廓廔廕廖廗廘",
       "廙廚廛廜廝廞廟廠廡廢廣廤廥廦廧廨廩廪廫廬廭廮廯廰廱廲廳廴廵延廷廸廹建廻廼廽廾廿往",
       "征徂徃径待徆徇很徉徊律後徍徎徏徐徑徒従徔徕徖得徘徙徚徛徜徝從徟徠御徢徣徤徥徦徧徨",
       "復循徫徬徭微徯徰徱徲徳徴徵徶德徸徹徺徻徼徽徾徿忀忁忂心忄必忆忇忈忉忊忋忌忍忎忏忐",
       "忑忒忓忔忕忖志忘忙忚忛応忝忞忟忠忡忢忣忤忥忦忧忨忩忪快忬忭忮忯忰忱忲忳忴念忶忷忸",
       "忹忺忻忼忽忾忿悀悁悂悃悄悅悆悇悈悉悊悋悌悍悎悏悐悑悒悓悔悕悖悗悘悙悚悛悜悝悞悟悠",
       "悡悢患悤悥悦悧您悩悪悫悬悭悮悯悰悱悲悳悴悵悶悷悸悹悺悻悼悽悾悿惀惁惂惃惄情惆惇惈",
       "惉惊惋惌惍惎惏惐惑惒惓惔惕惖惗惘惙惚惛惜惝惞惟惠惡惢惣惤惥惦惧惨惩惪惫惬惭惮惯惰",
       "惱惲想惴惵惶惷惸惹惺惻惼惽惾惿憀憁憂憃憄憅憆憇憈憉憊憋憌憍憎憏憐憑憒憓憔憕憖憗憘",
       "憙憚憛憜憝憞憟憠憡憢憣憤憥憦憧憨憩憪憫憬憭憮憯憰憱憲憳憴憵憶憷憸憹憺憻憼憽憾憿懀",
       "懁懂懃懄懅懆懇懈應懊懋懌懍懎懏懐懑懒懓懔懕懖懗懘懙懚懛懜懝懞懟懠懡懢懣懤懥懦懧懨",
       "懩懪懫懬懭懮懯懰懱懲懳懴懵懶懷懸懹懺懻懼懽懾懿技抁抂抃抄抅抆抇抈抉把抋抌抍抎抏抐",
       "抑抒抓抔投抖抗折抙抚抛抜抝択抟抠抡抢抣护报抦抧抨抩抪披抬抭抮抯抰抱抲抳抴抵抶抷抸",
       "抹抺抻押抽抾抿拀拁拂拃拄担拆拇拈拉拊拋拌拍拎拏拐拑拒拓拔拕拖拗拘拙拚招拜拝拞拟拠",
       "拡拢拣拤拥拦拧拨择拪拫括拭拮拯拰拱拲拳拴拵拶拷拸拹拺拻拼拽拾拿掀掁掂掃掄掅掆掇授",
       "掉掊掋掌掍掎掏掐掑排掓掔掕掖掗掘掙掚掛掜掝掞掟掠採探掣掤接掦控推掩措掫掬掭掮掯掰",
       "掱掲掳掴掵掶掷掸掹掺掻掼掽掾掿揀揁揂揃揄揅揆揇揈揉揊揋揌揍揎描提揑插揓揔揕揖揗揘",
       "揙揚換揜揝揞揟揠握揢揣揤揥揦揧揨揩揪揫揬揭揮揯揰揱揲揳援揵揶揷揸揹揺揻揼揽揾揿撀",
       "撁撂撃撄撅撆撇撈撉撊撋撌撍撎撏撐撑撒撓撔撕撖撗撘撙撚撛撜撝撞撟撠撡撢撣撤撥撦撧撨",
       "撩撪撫撬播撮撯撰撱撲撳撴撵撶撷撸撹撺撻撼撽撾撿擀擁擂擃擄擅擆擇擈擉擊擋擌操擎擏擐",
       "擑擒擓擔擕擖擗擘擙據擛擜擝擞擟擠擡擢擣擤擥擦擧擨擩擪擫擬擭擮擯擰擱擲擳擴擵擶擷擸",
       "擹擺擻擼擽擾擿斀斁斂斃斄斅斆文斈斉斊斋斌斍斎斏斐斑斒斓斔斕斖斗斘料斚斛斜斝斞斟斠",
       "斡斢斣斤斥斦斧斨斩斪斫斬断斮斯新斱斲斳斴斵斶斷斸方斺斻於施斾斿旀旁旂旃旄旅旆旇旈",
       "旉旊旋旌旍旎族旐旑旒旓旔旕旖旗旘旙旚旛旜旝旞旟无旡既旣旤日旦旧旨早旪旫旬旭旮旯旰",
       "旱旲旳旴旵时旷旸旹旺旻旼旽旾旿暀暁暂暃暄暅暆暇暈暉暊暋暌暍暎暏暐暑暒暓暔暕暖暗暘",
       "暙暚暛暜暝暞暟暠暡暢暣暤暥暦暧暨暩暪暫暬暭暮暯暰暱暲暳暴暵暶暷暸暹暺暻暼暽暾暿曀",
       "曁曂曃曄曅曆曇曈曉曊曋曌曍曎曏曐曑曒曓曔曕曖曗曘曙曚曛曜曝曞曟曠曡曢曣曤曥曦曧曨",
       "曩曪曫曬曭曮曯曰曱曲曳更曵曶曷書曹曺曻曼曽曾替枀极枂枃构枅枆枇枈枉枊枋枌枍枎枏析",
       "枑枒枓枔枕枖林枘枙枚枛果枝枞枟枠枡枢枣枤枥枦枧枨枩枪枫枬枭枮枯枰枱枲枳枴枵架枷枸",
       "枹枺枻枼枽枾枿柀柁柂柃柄柅柆柇柈柉柊柋柌柍柎柏某柑柒染柔柕柖柗柘柙柚柛柜柝柞柟柠",
       "柡柢柣柤查柦柧柨柩柪柫柬柭柮柯柰柱柲柳柴柵柶柷柸柹柺査柼柽柾柿梀梁梂梃梄梅梆梇梈",
       "梉梊梋梌梍梎梏梐梑梒梓梔梕梖梗梘梙梚梛梜條梞梟梠梡梢梣梤梥梦梧梨梩梪梫梬梭梮梯械",
       "梱梲梳梴梵梶梷梸梹梺梻梼梽梾梿检棁棂棃棄棅棆棇棈棉棊棋棌棍棎棏棐棑棒棓棔棕棖棗棘",
       "棙棚棛棜棝棞棟棠棡棢棣棤棥棦棧棨棩棪棫棬棭森棯棰棱棲棳棴棵棶棷棸棹棺棻棼棽棾棿榀",
       "榁概榃榄榅榆榇榈榉榊榋榌榍榎榏榐榑榒榓榔榕榖榗榘榙榚榛榜榝榞榟榠榡榢榣榤榥榦榧榨",
       "榩榪榫榬榭榮榯榰榱榲榳榴榵榶榷榸榹榺榻榼榽榾榿槀槁槂槃槄槅槆槇槈槉槊構槌槍槎槏槐",
       "槑槒槓槔槕槖槗様槙槚槛槜槝槞槟槠槡槢槣槤槥槦槧槨槩槪槫槬槭槮槯槰槱槲槳槴槵槶槷槸",
       "槹槺槻槼槽槾槿檀檁檂檃檄檅檆檇檈檉檊檋檌檍檎檏檐檑檒檓檔檕檖檗檘檙檚檛檜檝檞檟檠",
       "檡檢檣檤檥檦檧檨檩檪檫檬檭檮檯檰檱檲檳檴檵檶檷檸檹檺檻檼檽檾檿櫀櫁櫂櫃櫄櫅櫆櫇櫈",
       "櫉櫊櫋櫌櫍櫎櫏櫐櫑櫒櫓櫔櫕櫖櫗櫘櫙櫚櫛櫜櫝櫞櫟櫠櫡櫢櫣櫤櫥櫦櫧櫨櫩櫪櫫櫬櫭櫮櫯櫰",
       "櫱櫲櫳櫴櫵櫶櫷櫸櫹櫺櫻櫼櫽櫾櫿殀殁殂殃殄殅殆殇殈殉殊残殌殍殎殏殐殑殒殓殔殕殖殗殘",
       "殙殚殛殜殝殞殟殠殡殢殣殤殥殦殧殨殩殪殫殬殭殮殯殰殱殲殳殴段殶殷殸殹殺殻殼殽殾殿毀",
       "毁毂毃毄毅毆毇毈毉毊毋毌母毎每毐毑毒毓比毕毖毗毘毙毚毛毜毝毞毟毠毡毢毣毤毥毦毧毨",
       "毩毪毫毬毭毮毯毰毱毲毳毴毵毶毷毸毹毺毻毼毽毾毿沀沁沂沃沄沅沆沇沈沉沊沋沌沍沎沏沐",
       "沑沒沓沔沕沖沗沘沙沚沛沜沝沞沟沠没沢沣沤沥沦沧沨沩沪沫沬沭沮沯沰沱沲河沴沵沶沷沸",
       "油沺治沼沽沾沿泀況泂泃泄泅泆泇泈泉泊泋泌泍泎泏泐泑泒泓泔法泖泗泘泙泚泛泜泝泞泟泠",
       "泡波泣泤泥泦泧注泩泪泫泬泭泮泯泰泱泲泳泴泵泶泷泸泹泺泻泼泽泾泿涀涁涂涃涄涅涆涇消",
       "涉涊涋涌涍涎涏涐涑涒涓涔涕涖涗涘涙涚涛涜涝涞涟涠涡涢涣涤涥润涧涨涩涪涫涬涭涮涯涰",
       "涱液涳涴涵涶涷涸涹涺涻涼涽涾涿淀淁淂淃淄淅淆淇淈淉淊淋淌淍淎淏淐淑淒淓淔淕淖淗淘",
       "淙淚淛淜淝淞淟淠淡淢淣淤淥淦淧淨淩淪淫淬淭淮淯淰深淲淳淴淵淶混淸淹淺添淼淽淾淿満",
       "溁溂溃溄溅溆溇溈溉溊溋溌溍溎溏源溑溒溓溔溕準溗溘溙溚溛溜溝溞溟溠溡溢溣溤溥溦溧溨",
       "溩溪溫溬溭溮溯溰溱溲溳溴溵溶溷溸溹溺溻溼溽溾溿滀滁滂滃滄滅滆滇滈滉滊滋滌滍滎滏滐",
       "滑滒滓滔滕滖滗滘滙滚滛滜滝滞滟滠满滢滣滤滥滦滧滨滩滪滫滬滭滮滯滰滱滲滳滴滵滶滷滸",
       "滹滺滻滼滽滾滿澀澁澂澃澄澅澆澇澈澉澊澋澌澍澎澏澐澑澒澓澔澕澖澗澘澙澚澛澜澝澞澟澠",
       "澡澢澣澤澥澦澧澨澩澪澫澬澭澮澯澰澱澲澳澴澵澶澷澸澹澺澻澼澽澾澿激濁濂濃濄濅濆濇濈",
       "濉濊濋濌濍濎濏濐濑濒濓濔濕濖濗濘濙濚濛濜濝濞濟濠濡濢濣濤濥濦濧濨濩濪濫濬濭濮濯濰",
       "濱濲濳濴濵濶濷濸濹濺濻濼濽濾濿炀炁炂炃炄炅炆炇炈炉炊炋炌炍炎炏炐炑炒炓炔炕炖炗炘",
       "炙炚炛炜炝炞炟炠炡炢炣炤炥炦炧炨炩炪炫炬炭炮炯炰炱炲炳炴炵炶炷炸点為炻炼炽炾炿烀",
       "烁烂烃烄烅烆烇烈烉烊烋烌烍烎烏烐烑烒烓烔烕烖烗烘烙烚烛烜烝烞烟烠烡烢烣烤烥烦烧烨",
       "烩烪烫烬热烮烯烰烱烲烳烴烵烶烷烸烹烺烻烼烽烾烿熀熁熂熃熄熅熆熇熈熉熊熋熌熍熎熏熐",
       "熑熒熓熔熕熖熗熘熙熚熛熜熝熞熟熠熡熢熣熤熥熦熧熨熩熪熫熬熭熮熯熰熱熲熳熴熵熶熷熸",
       "熹熺熻熼熽熾熿燀燁燂燃燄燅燆燇燈燉燊燋燌燍燎燏燐燑燒燓燔燕燖燗燘燙燚燛燜燝燞營燠",
       "燡燢燣燤燥燦燧燨燩燪燫燬燭燮燯燰燱燲燳燴燵燶燷燸燹燺燻燼燽燾燿犀犁犂犃犄犅犆犇犈",
       "犉犊犋犌犍犎犏犐犑犒犓犔犕犖犗犘犙犚犛犜犝犞犟犠犡犢犣犤犥犦犧犨犩犪犫犬犭犮犯犰",
       "犱犲犳犴犵状犷犸犹犺犻犼犽犾犿狀狁狂狃狄狅狆狇狈狉狊狋狌狍狎狏狐狑狒狓狔狕狖狗狘",
       "狙狚狛狜狝狞狟狠狡狢狣狤狥狦狧狨狩狪狫独狭狮狯狰狱狲狳狴狵狶狷狸狹狺狻狼狽狾狿玀",
       "玁玂玃玄玅玆率玈玉玊王玌玍玎玏玐玑玒玓玔玕玖玗玘玙玚玛玜玝玞玟玠玡玢玣玤玥玦玧玨",
       "玩玪玫玬玭玮环现玱玲玳玴玵玶玷玸玹玺玻玼玽玾玿珀珁珂珃珄珅珆珇珈珉珊珋珌珍珎珏珐",
       "珑珒珓珔珕珖珗珘珙珚珛珜珝珞珟珠珡珢珣珤珥珦珧珨珩珪珫珬班珮珯珰珱珲珳珴珵珶珷珸",
       "珹珺珻珼珽現珿璀璁璂璃璄璅璆璇璈璉璊璋璌璍璎璏璐璑璒璓璔璕璖璗璘璙璚璛璜璝璞璟璠",
       "璡璢璣璤璥璦璧璨璩璪璫璬璭璮璯環璱璲璳璴璵璶璷璸璹璺璻璼璽璾璿瓀瓁瓂瓃瓄瓅瓆瓇瓈",
       "瓉瓊瓋瓌瓍瓎瓏瓐瓑瓒瓓瓔瓕瓖瓗瓘瓙瓚瓛瓜瓝瓞瓟瓠瓡瓢瓣瓤瓥瓦瓧瓨瓩瓪瓫瓬瓭瓮瓯瓰",
       "瓱瓲瓳瓴瓵瓶瓷瓸瓹瓺瓻瓼瓽瓾瓿疀疁疂疃疄疅疆疇疈疉疊疋疌疍疎疏疐疑疒疓疔疕疖疗疘",
       "疙疚疛疜疝疞疟疠疡疢疣疤疥疦疧疨疩疪疫疬疭疮疯疰疱疲疳疴疵疶疷疸疹疺疻疼疽疾疿痀",
       "痁痂痃痄病痆症痈痉痊痋痌痍痎痏痐痑痒痓痔痕痖痗痘痙痚痛痜痝痞痟痠痡痢痣痤痥痦痧痨",
       "痩痪痫痬痭痮痯痰痱痲痳痴痵痶痷痸痹痺痻痼痽痾痿皀皁皂皃的皅皆皇皈皉皊皋皌皍皎皏皐",
       "皑皒皓皔皕皖皗皘皙皚皛皜皝皞皟皠皡皢皣皤皥皦皧皨皩皪皫皬皭皮皯皰皱皲皳皴皵皶皷皸",
       "皹皺皻皼皽皾皿盀盁盂盃盄盅盆盇盈盉益盋盌盍盎盏盐监盒盓盔盕盖盗盘盙盚盛盜盝盞盟盠",
       "盡盢監盤盥盦盧盨盩盪盫盬盭目盯盰盱盲盳直盵盶盷相盹盺盻盼盽盾盿瞀瞁瞂瞃瞄瞅瞆瞇瞈",
       "瞉瞊瞋瞌瞍瞎瞏瞐瞑瞒瞓瞔瞕瞖瞗瞘瞙瞚瞛瞜瞝瞞瞟瞠瞡瞢瞣瞤瞥瞦瞧瞨瞩瞪瞫瞬瞭瞮瞯瞰",
       "瞱瞲瞳瞴瞵瞶瞷瞸瞹瞺瞻瞼瞽瞾瞿矀矁矂矃矄矅矆矇矈矉矊矋矌矍矎矏矐矑矒矓矔矕矖矗矘",
       "矙矚矛矜矝矞矟矠矡矢矣矤知矦矧矨矩矪矫矬短矮矯矰矱矲石矴矵矶矷矸矹矺矻矼矽矾矿碀",
       "碁碂碃碄碅碆碇碈碉碊碋碌碍碎碏碐碑碒碓碔碕碖碗碘碙碚碛碜碝碞碟碠碡碢碣碤碥碦碧碨",
       "碩碪碫碬碭碮碯碰碱碲碳碴碵碶碷碸碹確碻碼碽碾碿磀磁磂磃磄磅磆磇磈磉磊磋磌磍磎磏磐",
       "磑磒磓磔磕磖磗磘磙磚磛磜磝磞磟磠磡磢磣磤磥磦磧磨磩磪磫磬磭磮磯磰磱磲磳磴磵磶磷磸",
       "磹磺磻磼磽磾磿禀禁禂禃禄禅禆禇禈禉禊禋禌禍禎福禐禑禒禓禔禕禖禗禘禙禚禛禜禝禞禟禠",
       "禡禢禣禤禥禦禧禨禩禪禫禬禭禮禯禰禱禲禳禴禵禶禷禸禹禺离禼禽禾禿秀私秂秃秄秅秆秇秈",
       "秉秊秋秌种秎秏秐科秒秓秔秕秖秗秘秙秚秛秜秝秞租秠秡秢秣秤秥秦秧秨秩秪秫秬秭秮积称",
       "秱秲秳秴秵秶秷秸秹秺移秼秽秾秿窀突窂窃窄窅窆窇窈窉窊窋窌窍窎窏窐窑窒窓窔窕窖窗窘",
       "窙窚窛窜窝窞窟窠窡窢窣窤窥窦窧窨窩窪窫窬窭窮窯窰窱窲窳窴窵窶窷窸窹窺窻窼窽窾窿竀",
       "竁竂竃竄竅竆竇竈竉竊立竌竍竎竏竐竑竒竓竔竕竖竗竘站竚竛竜竝竞竟章竡竢竣竤童竦竧竨",
       "竩竪竫竬竭竮端竰竱竲竳竴竵競竷竸竹竺竻竼竽竾竿简箁箂箃箄箅箆箇箈箉箊箋箌箍箎箏箐",
       "箑箒箓箔箕箖算箘箙箚箛箜箝箞箟箠管箢箣箤箥箦箧箨箩箪箫箬箭箮箯箰箱箲箳箴箵箶箷箸",
       "箹箺箻箼箽箾箿節篁篂篃範篅篆篇篈築篊篋篌篍篎篏篐篑篒篓篔篕篖篗篘篙篚篛篜篝篞篟篠",
       "篡篢篣篤篥篦篧篨篩篪篫篬篭篮篯篰篱篲篳篴篵篶篷篸篹篺篻篼篽篾篿粀粁粂粃粄粅粆粇粈",
       "粉粊粋粌粍粎粏粐粑粒粓粔粕粖粗粘粙粚粛粜粝粞粟粠粡粢粣粤粥粦粧粨粩粪粫粬粭粮粯粰",
       "粱粲粳粴粵粶粷粸粹粺粻粼粽精粿糀糁糂糃糄糅糆糇糈糉糊糋糌糍糎糏糐糑糒糓糔糕糖糗糘",
       "糙糚糛糜糝糞糟糠糡糢糣糤糥糦糧糨糩糪糫糬糭糮糯糰糱糲糳糴糵糶糷糸糹糺系糼糽糾糿綀",
       "綁綂綃綄綅綆綇綈綉綊綋綌綍綎綏綐綑綒經綔綕綖綗綘継続綛綜綝綞綟綠綡綢綣綤綥綦綧綨",
       "綩綪綫綬維綮綯綰綱網綳綴綵綶綷綸綹綺綻綼綽綾綿緀緁緂緃緄緅緆緇緈緉緊緋緌緍緎総緐",
       "緑緒緓緔緕緖緗緘緙線緛緜緝緞緟締緡緢緣緤緥緦緧編緩緪緫緬緭緮緯緰緱緲緳練緵緶緷緸",
       "緹緺緻緼緽緾緿纀纁纂纃纄纅纆纇纈纉纊纋續纍纎纏纐纑纒纓纔纕纖纗纘纙纚纛纜纝纞纟纠",
       "纡红纣纤纥约级纨纩纪纫纬纭纮纯纰纱纲纳纴纵纶纷纸纹纺纻纼纽纾线绀绁绂练组绅细织终",
       "绉绊绋绌绍绎经绐绑绒结绔绕绖绗绘给绚绛络绝绞统绠绡绢绣绤绥绦继绨绩绪绫绬续绮绯绰",
       "绱绲绳维绵绶绷绸绹绺绻综绽绾绿羀羁羂羃羄羅羆羇羈羉羊羋羌羍美羏羐羑羒羓羔羕羖羗羘",
       "羙羚羛羜羝羞羟羠羡羢羣群羥羦羧羨義羪羫羬羭羮羯羰羱羲羳羴羵羶羷羸羹羺羻羼羽羾羿翀",
       "翁翂翃翄翅翆翇翈翉翊翋翌翍翎翏翐翑習翓翔翕翖翗翘翙翚翛翜翝翞翟翠翡翢翣翤翥翦翧翨",
       "翩翪翫翬翭翮翯翰翱翲翳翴翵翶翷翸翹翺翻翼翽翾翿肀肁肂肃肄肅肆肇肈肉肊肋肌肍肎肏肐",
       "肑肒肓肔肕肖肗肘肙肚肛肜肝肞肟肠股肢肣肤肥肦肧肨肩肪肫肬肭肮肯肰肱育肳肴肵肶肷肸",
       "肹肺肻肼肽肾肿胀胁胂胃胄胅胆胇胈胉胊胋背胍胎胏胐胑胒胓胔胕胖胗胘胙胚胛胜胝胞胟胠",
       "胡胢胣胤胥胦胧胨胩胪胫胬胭胮胯胰胱胲胳胴胵胶胷胸胹胺胻胼能胾胿膀膁膂膃膄膅膆膇膈",
       "膉膊膋膌膍膎膏膐膑膒膓膔膕膖膗膘膙膚膛膜膝膞膟膠膡膢膣膤膥膦膧膨膩膪膫膬膭膮膯膰",
       "膱膲膳膴膵膶膷膸膹膺膻膼膽膾膿臀臁臂臃臄臅臆臇臈臉臊臋臌臍臎臏臐臑臒臓臔臕臖臗臘",
       "臙臚臛臜臝臞臟臠臡臢臣臤臥臦臧臨臩自臫臬臭臮臯臰臱臲至致臵臶臷臸臹臺臻臼臽臾臿芀",
       "芁节芃芄芅芆芇芈芉芊芋芌芍芎芏芐芑芒芓芔芕芖芗芘芙芚芛芜芝芞芟芠芡芢芣芤芥芦芧芨",
       "芩芪芫芬芭芮芯芰花芲芳芴芵芶芷芸芹芺芻芼芽芾芿苀苁苂苃苄苅苆苇苈苉苊苋苌苍苎苏苐",
       "苑苒苓苔苕苖苗苘苙苚苛苜苝苞苟苠苡苢苣苤若苦苧苨苩苪苫苬苭苮苯苰英苲苳苴苵苶苷苸",
       "苹苺苻苼苽苾苿莀莁莂莃莄莅莆莇莈莉莊莋莌莍莎莏莐莑莒莓莔莕莖莗莘莙莚莛莜莝莞莟莠",
       "莡莢莣莤莥莦莧莨莩莪莫莬莭莮莯莰莱莲莳莴莵莶获莸莹莺莻莼莽莾莿菀菁菂菃菄菅菆菇菈",
       "菉菊菋菌菍菎菏菐菑菒菓菔菕菖菗菘菙菚菛菜菝菞菟菠菡菢菣菤菥菦菧菨菩菪菫菬菭菮華菰",
       "菱菲菳菴菵菶菷菸菹菺菻菼菽菾菿蒀蒁蒂蒃蒄蒅蒆蒇蒈蒉蒊蒋蒌蒍蒎蒏蒐蒑蒒蒓蒔蒕蒖蒗蒘",
       "蒙蒚蒛蒜蒝蒞蒟蒠蒡蒢蒣蒤蒥蒦蒧蒨蒩蒪蒫蒬蒭蒮蒯蒰蒱蒲蒳蒴蒵蒶蒷蒸蒹蒺蒻蒼蒽蒾蒿蓀",
       "蓁蓂蓃蓄蓅蓆蓇蓈蓉蓊蓋蓌蓍蓎蓏蓐蓑蓒蓓蓔蓕蓖蓗蓘蓙蓚蓛蓜蓝蓞蓟蓠蓡蓢蓣蓤蓥蓦蓧蓨",
       "蓩蓪蓫蓬蓭蓮蓯蓰蓱蓲蓳蓴蓵蓶蓷蓸蓹蓺蓻蓼蓽蓾蓿薀薁薂薃薄薅薆薇薈薉薊薋薌薍薎薏薐",
       "薑薒薓薔薕薖薗薘薙薚薛薜薝薞薟薠薡薢薣薤薥薦薧薨薩薪薫薬薭薮薯薰薱薲薳薴薵薶薷薸",
       "薹薺薻薼薽薾薿藀藁藂藃藄藅藆藇藈藉藊藋藌藍藎藏藐藑藒藓藔藕藖藗藘藙藚藛藜藝藞藟藠",
       "藡藢藣藤藥藦藧藨藩藪藫藬藭藮藯藰藱藲藳藴藵藶藷藸藹藺藻藼藽藾藿蚀蚁蚂蚃蚄蚅蚆蚇蚈",
       "蚉蚊蚋蚌蚍蚎蚏蚐蚑蚒蚓蚔蚕蚖蚗蚘蚙蚚蚛蚜蚝蚞蚟蚠蚡蚢蚣蚤蚥蚦蚧蚨蚩蚪蚫蚬蚭蚮蚯蚰",
       "蚱蚲蚳蚴蚵蚶蚷蚸蚹蚺蚻蚼蚽蚾蚿蛀蛁蛂蛃蛄蛅蛆蛇蛈蛉蛊蛋蛌蛍蛎蛏蛐蛑蛒蛓蛔蛕蛖蛗蛘",
       "蛙蛚蛛蛜蛝蛞蛟蛠蛡蛢蛣蛤蛥蛦蛧蛨蛩蛪蛫蛬蛭蛮蛯蛰蛱蛲蛳蛴蛵蛶蛷蛸蛹蛺蛻蛼蛽蛾蛿螀",
       "螁螂螃螄螅螆螇螈螉螊螋螌融螎螏螐螑螒螓螔螕螖螗螘螙螚螛螜螝螞螟螠螡螢螣螤螥螦螧螨",
       "螩螪螫螬螭螮螯螰螱螲螳螴螵螶螷螸螹螺螻螼螽螾螿蟀蟁蟂蟃蟄蟅蟆蟇蟈蟉蟊蟋蟌蟍蟎蟏蟐",
       "蟑蟒蟓蟔蟕蟖蟗蟘蟙蟚蟛蟜蟝蟞蟟蟠蟡蟢蟣蟤蟥蟦蟧蟨蟩蟪蟫蟬蟭蟮蟯蟰蟱蟲蟳蟴蟵蟶蟷蟸",
       "蟹蟺蟻蟼蟽蟾蟿袀袁袂袃袄袅袆袇袈袉袊袋袌袍袎袏袐袑袒袓袔袕袖袗袘袙袚袛袜袝袞袟袠",
       "袡袢袣袤袥袦袧袨袩袪被袬袭袮袯袰袱袲袳袴袵袶袷袸袹袺袻袼袽袾袿裀裁裂裃裄装裆裇裈",
       "裉裊裋裌裍裎裏裐裑裒裓裔裕裖裗裘裙裚裛補裝裞裟裠裡裢裣裤裥裦裧裨裩裪裫裬裭裮裯裰",
       "裱裲裳裴裵裶裷裸裹裺裻裼製裾裿覀要覂覃覄覅覆覇覈覉覊見覌覍覎規覐覑覒覓覔覕視覗覘",
       "覙覚覛覜覝覞覟覠覡覢覣覤覥覦覧覨覩親覫覬覭覮覯覰覱覲観覴覵覶覷覸覹覺覻覼覽覾覿觀",
       "见观觃规觅视觇览觉觊觋觌觍觎觏觐觑角觓觔觕觖觗觘觙觚觛觜觝觞觟觠觡觢解觤觥触觧觨",
       "觩觪觫觬觭觮觯觰觱觲觳觴觵觶觷觸觹觺觻觼觽觾觿誀誁誂誃誄誅誆誇誈誉誊誋誌認誎誏誐",
       "誑誒誓誔誕誖誗誘誙誚誛誜誝語誟誠誡誢誣誤誥誦誧誨誩說誫説読誮誯誰誱課誳誴誵誶誷誸",
       "誹誺誻誼誽誾調諀諁諂諃諄諅諆談諈諉諊請諌諍諎諏諐諑諒諓諔諕論諗諘諙諚諛諜諝諞諟諠",
       "諡諢諣諤諥諦諧諨諩諪諫諬諭諮諯諰諱諲諳諴諵諶諷諸諹諺諻諼諽諾諿讀讁讂讃讄讅讆讇讈",
       "讉變讋讌讍讎讏讐讑讒讓讔讕讖讗讘讙讚讛讜讝讞讟讠计订讣认讥讦讧讨让讪讫讬训议讯记",
       "讱讲讳讴讵讶讷许讹论讻讼讽设访诀证诂诃评诅识诇诈诉诊诋诌词诎诏诐译诒诓诔试诖诗诘",
       "诙诚诛诜话诞诟诠诡询诣诤该详诧诨诩诪诫诬语诮误诰诱诲诳说诵诶请诸诹诺读诼诽课诿貀",
       "貁貂貃貄貅貆貇貈貉貊貋貌貍貎貏貐貑貒貓貔貕貖貗貘貙貚貛貜貝貞貟負財貢貣貤貥貦貧貨",
       "販貪貫責貭貮貯貰貱貲貳貴貵貶買貸貹貺費貼貽貾貿賀賁賂賃賄賅賆資賈賉賊賋賌賍賎賏賐",
       "賑賒賓賔賕賖賗賘賙賚賛賜賝賞賟賠賡賢賣賤賥賦賧賨賩質賫賬賭賮賯賰賱賲賳賴賵賶賷賸",
       "賹賺賻購賽賾賿趀趁趂趃趄超趆趇趈趉越趋趌趍趎趏趐趑趒趓趔趕趖趗趘趙趚趛趜趝趞趟趠",
       "趡趢趣趤趥趦趧趨趩趪趫趬趭趮趯趰趱趲足趴趵趶趷趸趹趺趻趼趽趾趿跀跁跂跃跄跅跆跇跈",
       "跉跊跋跌跍跎跏跐跑跒跓跔跕跖跗跘跙跚跛跜距跞跟跠跡跢跣跤跥跦跧跨跩跪跫跬跭跮路跰",
       "跱跲跳跴践跶跷跸跹跺跻跼跽跾跿躀躁躂躃躄躅躆躇躈躉躊躋躌躍躎躏躐躑躒躓躔躕躖躗躘",
       "躙躚躛躜躝躞躟躠躡躢躣躤躥躦躧躨躩躪身躬躭躮躯躰躱躲躳躴躵躶躷躸躹躺躻躼躽躾躿軀",
       "軁軂軃軄軅軆軇軈軉車軋軌軍軎軏軐軑軒軓軔軕軖軗軘軙軚軛軜軝軞軟軠軡転軣軤軥軦軧軨",
       "軩軪軫軬軭軮軯軰軱軲軳軴軵軶軷軸軹軺軻軼軽軾軿辀辁辂较辄辅辆辇辈辉辊辋辌辍辎辏辐",
       "辑辒输辔辕辖辗辘辙辚辛辜辝辞辟辠辡辢辣辤辥辦辧辨辩辪辫辬辭辮辯辰辱農辳辴辵辶辷辸",
       "边辺辻込辽达辿迀迁迂迃迄迅迆过迈迉迊迋迌迍迎迏运近迒迓返迕迖迗还这迚进远违连迟迠",
       "迡迢迣迤迥迦迧迨迩迪迫迬迭迮迯述迱迲迳迴迵迶迷迸迹迺迻迼追迾迿邀邁邂邃還邅邆邇邈",
       "邉邊邋邌邍邎邏邐邑邒邓邔邕邖邗邘邙邚邛邜邝邞邟邠邡邢那邤邥邦邧邨邩邪邫邬邭邮邯邰",
       "邱邲邳邴邵邶邷邸邹邺邻邼邽邾邿郀郁郂郃郄郅郆郇郈郉郊郋郌郍郎郏郐郑郒郓郔郕郖郗郘",
       "郙郚郛郜郝郞郟郠郡郢郣郤郥郦郧部郩郪郫郬郭郮郯郰郱郲郳郴郵郶郷郸郹郺郻郼都郾郿醀",
       "醁醂醃醄醅醆醇醈醉醊醋醌醍醎醏醐醑醒醓醔醕醖醗醘醙醚醛醜醝醞醟醠醡醢醣醤醥醦醧醨",
       "醩醪醫醬醭醮醯醰醱醲醳醴醵醶醷醸醹醺醻醼醽醾醿釀釁釂釃釄釅釆采釈釉释釋里重野量釐",
       "金釒釓釔釕釖釗釘釙釚釛釜針釞釟釠釡釢釣釤釥釦釧釨釩釪釫釬釭釮釯釰釱釲釳釴釵釶釷釸",
       "釹釺釻釼釽釾釿銀銁銂銃銄銅銆銇銈銉銊銋銌銍銎銏銐銑銒銓銔銕銖銗銘銙銚銛銜銝銞銟銠",
       "銡銢銣銤銥銦銧銨銩銪銫銬銭銮銯銰銱銲銳銴銵銶銷銸銹銺銻銼銽銾銿鋀鋁鋂鋃鋄鋅鋆鋇鋈",
       "鋉鋊鋋鋌鋍鋎鋏鋐鋑鋒鋓鋔鋕鋖鋗鋘鋙鋚鋛鋜鋝鋞鋟鋠鋡鋢鋣鋤鋥鋦鋧鋨鋩鋪鋫鋬鋭鋮鋯鋰",
       "鋱鋲鋳鋴鋵鋶鋷鋸鋹鋺鋻鋼鋽鋾鋿鎀鎁鎂鎃鎄鎅鎆鎇鎈鎉鎊鎋鎌鎍鎎鎏鎐鎑鎒鎓鎔鎕鎖鎗鎘",
       "鎙鎚鎛鎜鎝鎞鎟鎠鎡鎢鎣鎤鎥鎦鎧鎨鎩鎪鎫鎬鎭鎮鎯鎰鎱鎲鎳鎴鎵鎶鎷鎸鎹鎺鎻鎼鎽鎾鎿鏀",
       "鏁鏂鏃鏄鏅鏆鏇鏈鏉鏊鏋鏌鏍鏎鏏鏐鏑鏒鏓鏔鏕鏖鏗鏘鏙鏚鏛鏜鏝鏞鏟鏠鏡鏢鏣鏤鏥鏦鏧鏨",
       "鏩鏪鏫鏬鏭鏮鏯鏰鏱鏲鏳鏴鏵鏶鏷鏸鏹鏺鏻鏼鏽鏾鏿钀钁钂钃钄钅钆钇针钉钊钋钌钍钎钏钐",
       "钑钒钓钔钕钖钗钘钙钚钛钜钝钞钟钠钡钢钣钤钥钦钧钨钩钪钫钬钭钮钯钰钱钲钳钴钵钶钷钸",
       "钹钺钻钼钽钾钿铀铁铂铃铄铅铆铇铈铉铊铋铌铍铎铏铐铑铒铓铔铕铖铗铘铙铚铛铜铝铞铟铠",
       "铡铢铣铤铥铦铧铨铩铪铫铬铭铮铯铰铱铲铳铴铵银铷铸铹铺铻铼铽链铿門閁閂閃閄閅閆閇閈",
       "閉閊開閌閍閎閏閐閑閒間閔閕閖閗閘閙閚閛閜閝閞閟閠閡関閣閤閥閦閧閨閩閪閫閬閭閮閯閰",
       "閱閲閳閴閵閶閷閸閹閺閻閼閽閾閿闀闁闂闃闄闅闆闇闈闉闊闋闌闍闎闏闐闑闒闓闔闕闖闗闘",
       "闙闚闛關闝闞闟闠闡闢闣闤闥闦闧门闩闪闫闬闭问闯闰闱闲闳间闵闶闷闸闹闺闻闼闽闾闿隀",
       "隁隂隃隄隅隆隇隈隉隊隋隌隍階随隐隑隒隓隔隕隖隗隘隙隚際障隝隞隟隠隡隢隣隤隥隦隧隨",
       "隩險隫隬隭隮隯隰隱隲隳隴隵隶隷隸隹隺隻隼隽难隿雀雁雂雃雄雅集雇雈雉雊雋雌雍雎雏雐",
       "雑雒雓雔雕雖雗雘雙雚雛雜雝雞雟雠雡離難雤雥雦雧雨雩雪雫雬雭雮雯雰雱雲雳雴雵零雷雸",
       "雹雺電雼雽雾雿鞀鞁鞂鞃鞄鞅鞆鞇鞈鞉鞊鞋鞌鞍鞎鞏鞐鞑鞒鞓鞔鞕鞖鞗鞘鞙鞚鞛鞜鞝鞞鞟鞠",
       "鞡鞢鞣鞤鞥鞦鞧鞨鞩鞪鞫鞬鞭鞮鞯鞰鞱鞲鞳鞴鞵鞶鞷鞸鞹鞺鞻鞼鞽鞾鞿韀韁韂韃韄韅韆韇韈",
       "韉韊韋韌韍韎韏韐韑韒韓韔韕韖韗韘韙韚韛韜韝韞韟韠韡韢韣韤韥韦韧韨韩韪韫韬韭韮韯韰",
       "韱韲音韴韵韶韷韸韹韺韻韼韽韾響颀颁颂颃预颅领颇颈颉颊颋颌颍颎颏颐频颒颓颔颕颖颗题",
       "颙颚颛颜额颞颟颠颡颢颣颤颥颦颧風颩颪颫颬颭颮颯颰颱颲颳颴颵颶颷颸颹颺颻颼颽颾颿飀",
       "飁飂飃飄飅飆飇飈飉飊飋飌飍风飏飐飑飒飓飔飕飖飗飘飙飚飛飜飝飞食飠飡飢飣飤飥飦飧飨",
       "飩飪飫飬飭飮飯飰飱飲飳飴飵飶飷飸飹飺飻飼飽飾飿馀馁馂馃馄馅馆馇馈馉馊馋馌馍馎馏馐",
       "馑馒馓馔馕首馗馘香馚馛馜馝馞馟馠馡馢馣馤馥馦馧馨馩馪馫馬馭馮馯馰馱馲馳馴馵馶馷馸",
       "馹馺馻馼馽馾馿駀駁駂駃駄駅駆駇駈駉駊駋駌駍駎駏駐駑駒駓駔駕駖駗駘駙駚駛駜駝駞駟駠",
       "駡駢駣駤駥駦駧駨駩駪駫駬駭駮駯駰駱駲駳駴駵駶駷駸駹駺駻駼駽駾駿骀骁骂骃骄骅骆骇骈",
       "骉骊骋验骍骎骏骐骑骒骓骔骕骖骗骘骙骚骛骜骝骞骟骠骡骢骣骤骥骦骧骨骩骪骫骬骭骮骯骰",
       "骱骲骳骴骵骶骷骸骹骺骻骼骽骾骿髀髁髂髃髄髅髆髇髈髉髊髋髌髍髎髏髐髑髒髓體髕髖髗高",
       "髙髚髛髜髝髞髟髠髡髢髣髤髥髦髧髨髩髪髫髬髭髮髯髰髱髲髳髴髵髶髷髸髹髺髻髼髽髾髿鮀",
       "鮁鮂鮃鮄鮅鮆鮇鮈鮉鮊鮋鮌鮍鮎鮏鮐鮑鮒鮓鮔鮕鮖鮗鮘鮙鮚鮛鮜鮝鮞鮟鮠鮡鮢鮣鮤鮥鮦鮧鮨",
       "鮩鮪鮫鮬鮭鮮鮯鮰鮱鮲鮳鮴鮵鮶鮷鮸鮹鮺鮻鮼鮽鮾鮿鯀鯁鯂鯃鯄鯅鯆鯇鯈鯉鯊鯋鯌鯍鯎鯏鯐",
       "鯑鯒鯓鯔鯕鯖鯗鯘鯙鯚鯛鯜鯝鯞鯟鯠鯡鯢鯣鯤鯥鯦鯧鯨鯩鯪鯫鯬鯭鯮鯯鯰鯱鯲鯳鯴鯵鯶鯷鯸",
       "鯹鯺鯻鯼鯽鯾鯿鲀鲁鲂鲃鲄鲅鲆鲇鲈鲉鲊鲋鲌鲍鲎鲏鲐鲑鲒鲓鲔鲕鲖鲗鲘鲙鲚鲛鲜鲝鲞鲟鲠",
       "鲡鲢鲣鲤鲥鲦鲧鲨鲩鲪鲫鲬鲭鲮鲯鲰鲱鲲鲳鲴鲵鲶鲷鲸鲹鲺鲻鲼鲽鲾鲿鳀鳁鳂鳃鳄鳅鳆鳇鳈",
       "鳉鳊鳋鳌鳍鳎鳏鳐鳑鳒鳓鳔鳕鳖鳗鳘鳙鳚鳛鳜鳝鳞鳟鳠鳡鳢鳣鳤鳥鳦鳧鳨鳩鳪鳫鳬鳭鳮鳯鳰",
       "鳱鳲鳳鳴鳵鳶鳷鳸鳹鳺鳻鳼鳽鳾鳿鶀鶁鶂鶃鶄鶅鶆鶇鶈鶉鶊鶋鶌鶍鶎鶏鶐鶑鶒鶓鶔鶕鶖鶗鶘",
       "鶙鶚鶛鶜鶝鶞鶟鶠鶡鶢鶣鶤鶥鶦鶧鶨鶩鶪鶫鶬鶭鶮鶯鶰鶱鶲鶳鶴鶵鶶鶷鶸鶹鶺鶻鶼鶽鶾鶿鷀",
       "鷁鷂鷃鷄鷅鷆鷇鷈鷉鷊鷋鷌鷍鷎鷏鷐鷑鷒鷓鷔鷕鷖鷗鷘鷙鷚鷛鷜鷝鷞鷟鷠鷡鷢鷣鷤鷥鷦鷧鷨",
       "鷩鷪鷫鷬鷭鷮鷯鷰鷱鷲鷳鷴鷵鷶鷷鷸鷹鷺鷻鷼鷽鷾鷿麀麁麂麃麄麅麆麇麈麉麊麋麌麍麎麏麐",
       "麑麒麓麔麕麖麗麘麙麚麛麜麝麞麟麠麡麢麣麤麥麦麧麨麩麪麫麬麭麮麯麰麱麲麳麴麵麶麷麸",
       "麹麺麻麼麽麾麿黀黁黂黃黄黅黆黇黈黉黊黋黌黍黎黏黐黑黒黓黔黕黖黗默黙黚黛黜黝點黟黠",
       "黡黢黣黤黥黦黧黨黩黪黫黬黭黮黯黰黱黲黳黴黵黶黷黸黹黺黻黼黽黾黿龀龁龂龃龄龅龆龇龈",
       "龉龊龋龌龍龎龏龐龑龒龓龔龕龖龗龘龙龚龛龜龝龞龟龠龡龢龣龤龥龦龧龨龩龪龫龬龭龮龯龰",
       "龱龲龳龴龵龶龷龸龹龺龻龼龽龾龿鿀鿁鿂鿃鿄鿅鿆鿇鿈鿉鿊鿋鿌鿍鿎鿏鿐鿑鿒鿓鿔鿕鿖鿗鿘",
       "鿙鿚鿛鿜鿝鿞鿟鿠鿡鿢鿣鿤鿥鿦鿧鿨鿩鿪鿫鿬鿭鿮鿯鿰鿱鿲鿳鿴鿵鿶鿷鿸鿹鿺鿻鿼鿽鿾鿿ꂀ",
       "ꂁꂂꂃꂄꂅꂆꂇꂈꂉꂊꂋꂌꂍꂎꂏꂐꂑꂒꂓꂔꂕꂖꂗꂘꂙꂚꂛꂜꂝꂞꂟꂠꂡꂢꂣꂤꂥꂦꂧꂨ",
       "ꂩꂪꂫꂬꂭꂮꂯꂰꂱꂲꂳꂴꂵꂶꂷꂸꂹꂺꂻꂼꂽꂾꂿꃀꃁꃂꃃꃄꃅꃆꃇꃈꃉꃊꃋꃌꃍꃎꃏꃐ",
       "ꃑꃒꃓꃔꃕꃖꃗꃘꃙꃚꃛꃜꃝꃞꃟꃠꃡꃢꃣꃤꃥꃦꃧꃨꃩꃪꃫꃬꃭꃮꃯꃰꃱꃲꃳꃴꃵꃶꃷꃸ",
       "ꃹꃺꃻꃼꃽꃾꃿꆀꆁꆂꆃꆄꆅꆆꆇꆈꆉꆊꆋꆌꆍꆎꆏꆐꆑꆒꆓꆔꆕꆖꆗꆘꆙꆚꆛꆜꆝꆞꆟꆠ",
       "ꆡꆢꆣꆤꆥꆦꆧꆨꆩꆪꆫꆬꆭꆮꆯꆰꆱꆲꆳꆴꆵꆶꆷꆸꆹꆺꆻꆼꆽꆾꆿꇀꇁꇂꇃꇄꇅꇆꇇꇈ",
       "ꇉꇊꇋꇌꇍꇎꇏꇐꇑꇒꇓꇔꇕꇖꇗꇘꇙꇚꇛꇜꇝꇞꇟꇠꇡꇢꇣꇤꇥꇦꇧꇨꇩꇪꇫꇬꇭꇮꇯꇰ",
       "ꇱꇲꇳꇴꇵꇶꇷꇸꇹꇺꇻꇼꇽꇾꇿꊀꊁꊂꊃꊄꊅꊆꊇꊈꊉꊊꊋꊌꊍꊎꊏꊐꊑꊒꊓꊔꊕꊖꊗꊘ",
       "ꊙꊚꊛꊜꊝꊞꊟꊠꊡꊢꊣꊤꊥꊦꊧꊨꊩꊪꊫꊬꊭꊮꊯꊰꊱꊲꊳꊴꊵꊶꊷꊸꊹꊺꊻꊼꊽꊾꊿꋀ",
       "ꋁꋂꋃꋄꋅꋆꋇꋈꋉꋊꋋꋌꋍꋎꋏꋐꋑꋒꋓꋔꋕꋖꋗꋘꋙꋚꋛꋜꋝꋞꋟꋠꋡꋢꋣꋤꋥꋦꋧꋨ",
       "ꋩꋪꋫꋬꋭꋮꋯꋰꋱꋲꋳꋴꋵꋶꋷꋸꋹꋺꋻꋼꋽꋾꋿꎀꎁꎂꎃꎄꎅꎆꎇꎈꎉꎊꎋꎌꎍꎎꎏꎐ",
       "ꎑꎒꎓꎔꎕꎖꎗꎘꎙꎚꎛꎜꎝꎞꎟꎠꎡꎢꎣꎤꎥꎦꎧꎨꎩꎪꎫꎬꎭꎮꎯꎰꎱꎲꎳꎴꎵꎶꎷꎸ",
       "ꎹꎺꎻꎼꎽꎾꎿꏀꏁꏂꏃꏄꏅꏆꏇꏈꏉꏊꏋꏌꏍꏎꏏꏐꏑꏒꏓꏔꏕꏖꏗꏘꏙꏚꏛꏜꏝꏞꏟꏠ",
       "ꏡꏢꏣꏤꏥꏦꏧꏨꏩꏪꏫꏬꏭꏮꏯꏰꏱꏲꏳꏴꏵꏶꏷꏸꏹꏺꏻꏼꏽꏾꏿꒀꒁꒂꒃꒄꒅꒆꒇꒈ",
       "ꒉꒊꒋꒌ꒍꒎꒏꒐꒑꒒꒓꒔꒕꒖꒗꒘꒙꒚꒛꒜꒝꒞꒟꒠꒡꒢꒣꒤꒥꒦꒧꒨꒩꒪꒫꒬꒭꒮꒯꒰",
       "꒱꒲꒳꒴꒵꒶꒷꒸꒹꒺꒻꒼꒽꒾꒿꓀꓁꓂꓃꓄꓅꓆꓇꓈꓉꓊꓋꓌꓍꓎꓏ꓐꓑꓒꓓꓔꓕꓖꓗꓘ",
       "ꓙꓚꓛꓜꓝꓞꓟꓠꓡꓢꓣꓤꓥꓦꓧꓨꓩꓪꓫꓬꓭꓮꓯꓰꓱꓲꓳꓴꓵꓶꓷꓸꓹꓺꓻꓼꓽ꓾꓿ꖀ",
       "ꖁꖂꖃꖄꖅꖆꖇꖈꖉꖊꖋꖌꖍꖎꖏꖐꖑꖒꖓꖔꖕꖖꖗꖘꖙꖚꖛꖜꖝꖞꖟꖠꖡꖢꖣꖤꖥꖦꖧꖨ",
       "ꖩꖪꖫꖬꖭꖮꖯꖰꖱꖲꖳꖴꖵꖶꖷꖸꖹꖺꖻꖼꖽꖾꖿꗀꗁꗂꗃꗄꗅꗆꗇꗈꗉꗊꗋꗌꗍꗎꗏꗐ",
       "ꗑꗒꗓꗔꗕꗖꗗꗘꗙꗚꗛꗜꗝꗞꗟꗠꗡꗢꗣꗤꗥꗦꗧꗨꗩꗪꗫꗬꗭꗮꗯꗰꗱꗲꗳꗴꗵꗶꗷꗸ",
       "ꗹꗺꗻꗼꗽꗾꗿꚜꚝꚪꚫꚬꚭꚮꚯꚰꚱꚲꚳꚴꚵꚶꚷꚸꚹꚺꚻꚼꚽꚾꚿꛀꛁꛂꛃꛄꛅꛆꛇꛈ",
       "ꛉꛊꛋꛌꛍꛎꛏꛐꛑꛒꛓꛔꛕꛖꛗꛘꛙꛚꛛꛜꛝꛞꛟꛠꛡꛢꛣꛤꛥꛦꛧꛨꛩꛪꛫꛬꛭꛮꛯ꛿",
       "ꞈꞎꞏꞕꞯꞰꞱꟋ꟰꟱ꟲꟳꟴꟷꟸꟹꟺꟻꟼꟽꟾꟿꢀꢁꢂꢃꢄꢅꢆꢇꢈꢉꢊꢋꢌꢍꢎꢏꢐꢑ",
       "ꢒꢓꢔꢕꢖꢗꢘꢙꢚꢛꢜꢝꢞꢟꢠꢡꢢꢣꢤꢥꢦꢧꢨꢩꢪꢫꢬꢭꢮꢯꢰꢱꢲꢳꢴꢵꣀꣁꣂꣃ",
       "꣆꣇꣈꣉꣊꣋꣌꣍꣎꣏꣚꣛꣜꣝꣞꣟ꣲꣳꣴꣵꣶꣷꣻꣽꣾꦊꦋꦌꦍꦎꦏꦐꦑꦒꦓꦔꦕꦖꦗꦘ",
       "ꦙꦚꦛꦜꦝꦞꦟꦠꦡꦢꦣꦤꦥꦦꦧꦨꦩꦪꦫꦬꦭꦮꦯꦰꦱꦲꦴꦵꦺꦻꦾꦿ꧀꧁꧂꧃꧄꧅꧆ꧏ",
       "ꧠꧡꧢꧣꧤꧦꧧꧨꧩꧪꧫꧬꧭꧮꧯꧺꧻꧼꧽꧾꪀꪁꪂꪃꪄꪅꪆꪇꪈꪉꪊꪋꪌꪍꪎꪏꪐꪑꪒꪓ",
       "ꪔꪕꪖꪗꪘꪙꪚꪛꪜꪝꪞꪟꪠꪡꪢꪣꪤꪥꪦꪧꪨꪩꪪꪫꪬꪭꪮꪯꪱꪵꪶꪹꪺꪻꪼꪽꫀꫂ꫄꫅",
       "꫆꫇꫈꫉꫊꫋ꫛꫜꫝꫠꫡꫢꫣꫤꫥꫦꫧꫨꫩꫪꫫꫮꫯ꫰꫱ꫲꫳꫴꫵ꫺꫾꫿ꯀꯁꯂꯃꯄꯅꯆꯇ",
       "ꯈꯉꯊꯋꯌꯍꯎꯏꯐꯑꯒꯓꯔꯕꯖꯗꯘꯙꯚꯛꯜꯝꯞꯟꯠꯡꯢꯣꯤꯦꯧꯩ검겁겂것겄겅겆겇",
       "겈겉겊겋게겍겎겏겐겑겒겓겔겕겖겗겘겙겚겛겜겝겞겟겠겡겢겣겤겥겦겧겨격겪겫견겭겮겯",
       "결겱겲겳겴겵겶겷겸겹겺겻겼경겾겿곀곁곂곃계곅곆곇곈곉곊곋곌곍곎곏곐곑곒곓곔곕곖곗",
       "곘곙곚곛곜곝곞곟고곡곢곣곤곥곦곧골곩곪곫곬곭곮곯곰곱곲곳곴공곶곷곸곹곺곻과곽곾곿",
       "궀궁궂궃궄궅궆궇궈궉궊궋권궍궎궏궐궑궒궓궔궕궖궗궘궙궚궛궜궝궞궟궠궡궢궣궤궥궦궧",
       "궨궩궪궫궬궭궮궯궰궱궲궳궴궵궶궷궸궹궺궻궼궽궾궿귀귁귂귃귄귅귆귇귈귉귊귋귌귍귎귏",
       "귐귑귒귓귔귕귖귗귘귙귚귛규귝귞귟균귡귢귣귤귥귦귧귨귩귪귫귬귭귮귯귰귱귲귳귴귵귶귷",
       "그극귺귻근귽귾귿꺀꺁꺂꺃꺄꺅꺆꺇꺈꺉꺊꺋꺌꺍꺎꺏꺐꺑꺒꺓꺔꺕꺖꺗꺘꺙꺚꺛꺜꺝꺞꺟",
       "꺠꺡꺢꺣꺤꺥꺦꺧꺨꺩꺪꺫꺬꺭꺮꺯꺰꺱꺲꺳꺴꺵꺶꺷꺸꺹꺺꺻꺼꺽꺾꺿껀껁껂껃껄껅껆껇",
       "껈껉껊껋껌껍껎껏껐껑껒껓껔껕껖껗께껙껚껛껜껝껞껟껠껡껢껣껤껥껦껧껨껩껪껫껬껭껮껯",
       "껰껱껲껳껴껵껶껷껸껹껺껻껼껽껾껿꾀꾁꾂꾃꾄꾅꾆꾇꾈꾉꾊꾋꾌꾍꾎꾏꾐꾑꾒꾓꾔꾕꾖꾗",
       "꾘꾙꾚꾛꾜꾝꾞꾟꾠꾡꾢꾣꾤꾥꾦꾧꾨꾩꾪꾫꾬꾭꾮꾯꾰꾱꾲꾳꾴꾵꾶꾷꾸꾹꾺꾻꾼꾽꾾꾿",
       "꿀꿁꿂꿃꿄꿅꿆꿇꿈꿉꿊꿋꿌꿍꿎꿏꿐꿑꿒꿓꿔꿕꿖꿗꿘꿙꿚꿛꿜꿝꿞꿟꿠꿡꿢꿣꿤꿥꿦꿧",
       "꿨꿩꿪꿫꿬꿭꿮꿯꿰꿱꿲꿳꿴꿵꿶꿷꿸꿹꿺꿻꿼꿽꿾꿿낀낁낂낃낄낅낆낇낈낉낊낋낌낍낎낏",
       "낐낑낒낓낔낕낖낗나낙낚낛난낝낞낟날낡낢낣낤낥낦낧남납낪낫났낭낮낯낰낱낲낳내낵낶낷",
       "낸낹낺낻낼낽낾낿냀냁냂냃냄냅냆냇냈냉냊냋냌냍냎냏냐냑냒냓냔냕냖냗냘냙냚냛냜냝냞냟",
       "냠냡냢냣냤냥냦냧냨냩냪냫냬냭냮냯냰냱냲냳냴냵냶냷냸냹냺냻냼냽냾냿놀놁놂놃놄놅놆놇",
       "놈놉놊놋놌농놎놏놐놑높놓놔놕놖놗놘놙놚놛놜놝놞놟놠놡놢놣놤놥놦놧놨놩놪놫놬놭놮놯",
       "놰놱놲놳놴놵놶놷놸놹놺놻놼놽놾놿뇀뇁뇂뇃뇄뇅뇆뇇뇈뇉뇊뇋뇌뇍뇎뇏뇐뇑뇒뇓뇔뇕뇖뇗",
       "뇘뇙뇚뇛뇜뇝뇞뇟뇠뇡뇢뇣뇤뇥뇦뇧뇨뇩뇪뇫뇬뇭뇮뇯뇰뇱뇲뇳뇴뇵뇶뇷뇸뇹뇺뇻뇼뇽뇾뇿",
       "늀늁늂늃늄늅늆늇늈늉늊늋늌늍늎늏느늑늒늓는늕늖늗늘늙늚늛늜늝늞늟늠늡늢늣늤능늦늧",
       "늨늩늪늫늬늭늮늯늰늱늲늳늴늵늶늷늸늹늺늻늼늽늾늿닀닁닂닃닄닅닆닇니닉닊닋닌닍닎닏",
       "닐닑닒닓닔닕닖닗님닙닚닛닜닝닞닟닠닡닢닣다닥닦닧단닩닪닫달닭닮닯닰닱닲닳담답닶닷",
       "닸당닺닻닼닽닾닿뎀뎁뎂뎃뎄뎅뎆뎇뎈뎉뎊뎋뎌뎍뎎뎏뎐뎑뎒뎓뎔뎕뎖뎗뎘뎙뎚뎛뎜뎝뎞뎟",
       "뎠뎡뎢뎣뎤뎥뎦뎧뎨뎩뎪뎫뎬뎭뎮뎯뎰뎱뎲뎳뎴뎵뎶뎷뎸뎹뎺뎻뎼뎽뎾뎿돀돁돂돃도독돆돇",
       "돈돉돊돋돌돍돎돏돐돑돒돓돔돕돖돗돘동돚돛돜돝돞돟돠돡돢돣돤돥돦돧돨돩돪돫돬돭돮돯",
       "돰돱돲돳돴돵돶돷돸돹돺돻돼돽돾돿뒀뒁뒂뒃뒄뒅뒆뒇뒈뒉뒊뒋뒌뒍뒎뒏뒐뒑뒒뒓뒔뒕뒖뒗",
       "뒘뒙뒚뒛뒜뒝뒞뒟뒠뒡뒢뒣뒤뒥뒦뒧뒨뒩뒪뒫뒬뒭뒮뒯뒰뒱뒲뒳뒴뒵뒶뒷뒸뒹뒺뒻뒼뒽뒾뒿",
       "듀듁듂듃듄듅듆듇듈듉듊듋듌듍듎듏듐듑듒듓듔듕듖듗듘듙듚듛드득듞듟든듡듢듣들듥듦듧",
       "듨듩듪듫듬듭듮듯듰등듲듳듴듵듶듷듸듹듺듻듼듽듾듿떀떁떂떃떄떅떆떇떈떉떊떋떌떍떎떏",
       "떐떑떒떓떔떕떖떗떘떙떚떛떜떝떞떟떠떡떢떣떤떥떦떧떨떩떪떫떬떭떮떯떰떱떲떳떴떵떶떷",
       "떸떹떺떻떼떽떾떿뗀뗁뗂뗃뗄뗅뗆뗇뗈뗉뗊뗋뗌뗍뗎뗏뗐뗑뗒뗓뗔뗕뗖뗗뗘뗙뗚뗛뗜뗝뗞뗟",
       "뗠뗡뗢뗣뗤뗥뗦뗧뗨뗩뗪뗫뗬뗭뗮뗯뗰뗱뗲뗳뗴뗵뗶뗷뗸뗹뗺뗻뗼뗽뗾뗿뚀뚁뚂뚃뚄뚅뚆뚇",
       "뚈뚉뚊뚋뚌뚍뚎뚏뚐뚑뚒뚓뚔뚕뚖뚗뚘뚙뚚뚛뚜뚝뚞뚟뚠뚡뚢뚣뚤뚥뚦뚧뚨뚩뚪뚫뚬뚭뚮뚯",
       "뚰뚱뚲뚳뚴뚵뚶뚷뚸뚹뚺뚻뚼뚽뚾뚿뛀뛁뛂뛃뛄뛅뛆뛇뛈뛉뛊뛋뛌뛍뛎뛏뛐뛑뛒뛓뛔뛕뛖뛗",
       "뛘뛙뛚뛛뛜뛝뛞뛟뛠뛡뛢뛣뛤뛥뛦뛧뛨뛩뛪뛫뛬뛭뛮뛯뛰뛱뛲뛳뛴뛵뛶뛷뛸뛹뛺뛻뛼뛽뛾뛿",
       "란랁랂랃랄랅랆랇랈랉랊랋람랍랎랏랐랑랒랓랔랕랖랗래랙랚랛랜랝랞랟랠랡랢랣랤랥랦랧",
       "램랩랪랫랬랭랮랯랰랱랲랳랴략랶랷랸랹랺랻랼랽랾랿럀럁럂럃럄럅럆럇럈량럊럋럌럍럎럏",
       "럐럑럒럓럔럕럖럗럘럙럚럛럜럝럞럟럠럡럢럣럤럥럦럧럨럩럪럫러럭럮럯런럱럲럳럴럵럶럷",
       "럸럹럺럻럼럽럾럿뢀뢁뢂뢃뢄뢅뢆뢇뢈뢉뢊뢋뢌뢍뢎뢏뢐뢑뢒뢓뢔뢕뢖뢗뢘뢙뢚뢛뢜뢝뢞뢟",
       "뢠뢡뢢뢣뢤뢥뢦뢧뢨뢩뢪뢫뢬뢭뢮뢯뢰뢱뢲뢳뢴뢵뢶뢷뢸뢹뢺뢻뢼뢽뢾뢿룀룁룂룃룄룅룆룇",
       "룈룉룊룋료룍룎룏룐룑룒룓룔룕룖룗룘룙룚룛룜룝룞룟룠룡룢룣룤룥룦룧루룩룪룫룬룭룮룯",
       "룰룱룲룳룴룵룶룷룸룹룺룻룼룽룾룿릀릁릂릃름릅릆릇릈릉릊릋릌릍릎릏릐릑릒릓릔릕릖릗",
       "릘릙릚릛릜릝릞릟릠릡릢릣릤릥릦릧릨릩릪릫리릭릮릯린릱릲릳릴릵릶릷릸릹릺릻림립릾릿",
       "맀링맂맃맄맅맆맇마막맊맋만맍많맏말맑맒맓맔맕맖맗맘맙맚맛맜망맞맟맠맡맢맣매맥맦맧",
       "맨맩맪맫맬맭맮맯맰맱맲맳맴맵맶맷맸맹맺맻맼맽맾맿몀몁몂몃몄명몆몇몈몉몊몋몌몍몎몏",
       "몐몑몒몓몔몕몖몗몘몙몚몛몜몝몞몟몠몡몢몣몤몥몦몧모목몪몫몬몭몮몯몰몱몲몳몴몵몶몷",
       "몸몹몺못몼몽몾몿뫀뫁뫂뫃뫄뫅뫆뫇뫈뫉뫊뫋뫌뫍뫎뫏뫐뫑뫒뫓뫔뫕뫖뫗뫘뫙뫚뫛뫜뫝뫞뫟",
       "뫠뫡뫢뫣뫤뫥뫦뫧뫨뫩뫪뫫뫬뫭뫮뫯뫰뫱뫲뫳뫴뫵뫶뫷뫸뫹뫺뫻뫼뫽뫾뫿뮀뮁뮂뮃뮄뮅뮆뮇",
       "뮈뮉뮊뮋뮌뮍뮎뮏뮐뮑뮒뮓뮔뮕뮖뮗뮘뮙뮚뮛뮜뮝뮞뮟뮠뮡뮢뮣뮤뮥뮦뮧뮨뮩뮪뮫뮬뮭뮮뮯",
       "뮰뮱뮲뮳뮴뮵뮶뮷뮸뮹뮺뮻뮼뮽뮾뮿므믁믂믃믄믅믆믇믈믉믊믋믌믍믎믏믐믑믒믓믔믕믖믗",
       "믘믙믚믛믜믝믞믟믠믡믢믣믤믥믦믧믨믩믪믫믬믭믮믯믰믱믲믳믴믵믶믷미믹믺믻민믽믾믿",
       "벀벁벂벃버벅벆벇번벉벊벋벌벍벎벏벐벑벒벓범법벖벗벘벙벚벛벜벝벞벟베벡벢벣벤벥벦벧",
       "벨벩벪벫벬벭벮벯벰벱벲벳벴벵벶벷벸벹벺벻벼벽벾벿변볁볂볃별볅볆볇볈볉볊볋볌볍볎볏",
       "볐병볒볓볔볕볖볗볘볙볚볛볜볝볞볟볠볡볢볣볤볥볦볧볨볩볪볫볬볭볮볯볰볱볲볳보복볶볷",
       "본볹볺볻볼볽볾볿부북붂붃분붅붆붇불붉붊붋붌붍붎붏붐붑붒붓붔붕붖붗붘붙붚붛붜붝붞붟",
       "붠붡붢붣붤붥붦붧붨붩붪붫붬붭붮붯붰붱붲붳붴붵붶붷붸붹붺붻붼붽붾붿뷀뷁뷂뷃뷄뷅뷆뷇",
       "뷈뷉뷊뷋뷌뷍뷎뷏뷐뷑뷒뷓뷔뷕뷖뷗뷘뷙뷚뷛뷜뷝뷞뷟뷠뷡뷢뷣뷤뷥뷦뷧뷨뷩뷪뷫뷬뷭뷮뷯",
       "뷰뷱뷲뷳뷴뷵뷶뷷뷸뷹뷺뷻뷼뷽뷾뷿뺀뺁뺂뺃뺄뺅뺆뺇뺈뺉뺊뺋뺌뺍뺎뺏뺐뺑뺒뺓뺔뺕뺖뺗",
       "뺘뺙뺚뺛뺜뺝뺞뺟뺠뺡뺢뺣뺤뺥뺦뺧뺨뺩뺪뺫뺬뺭뺮뺯뺰뺱뺲뺳뺴뺵뺶뺷뺸뺹뺺뺻뺼뺽뺾뺿",
       "뻀뻁뻂뻃뻄뻅뻆뻇뻈뻉뻊뻋뻌뻍뻎뻏뻐뻑뻒뻓뻔뻕뻖뻗뻘뻙뻚뻛뻜뻝뻞뻟뻠뻡뻢뻣뻤뻥뻦뻧",
       "뻨뻩뻪뻫뻬뻭뻮뻯뻰뻱뻲뻳뻴뻵뻶뻷뻸뻹뻺뻻뻼뻽뻾뻿뾀뾁뾂뾃뾄뾅뾆뾇뾈뾉뾊뾋뾌뾍뾎뾏",
       "뾐뾑뾒뾓뾔뾕뾖뾗뾘뾙뾚뾛뾜뾝뾞뾟뾠뾡뾢뾣뾤뾥뾦뾧뾨뾩뾪뾫뾬뾭뾮뾯뾰뾱뾲뾳뾴뾵뾶뾷",
       "뾸뾹뾺뾻뾼뾽뾾뾿뿀뿁뿂뿃뿄뿅뿆뿇뿈뿉뿊뿋뿌뿍뿎뿏뿐뿑뿒뿓뿔뿕뿖뿗뿘뿙뿚뿛뿜뿝뿞뿟",
       "뿠뿡뿢뿣뿤뿥뿦뿧뿨뿩뿪뿫뿬뿭뿮뿯뿰뿱뿲뿳뿴뿵뿶뿷뿸뿹뿺뿻뿼뿽뿾뿿삀삁삂삃삄삅삆삇",
       "삈삉삊삋삌삍삎삏삐삑삒삓삔삕삖삗삘삙삚삛삜삝삞삟삠삡삢삣삤삥삦삧삨삩삪삫사삭삮삯",
       "산삱삲삳살삵삶삷삸삹삺삻삼삽삾삿샀상샂샃샄샅샆샇새색샊샋샌샍샎샏샐샑샒샓샔샕샖샗",
       "샘샙샚샛샜생샞샟샠샡샢샣샤샥샦샧샨샩샪샫샬샭샮샯샰샱샲샳샴샵샶샷샸샹샺샻샼샽샾샿",
       "솀솁솂솃솄솅솆솇솈솉솊솋소속솎솏손솑솒솓솔솕솖솗솘솙솚솛솜솝솞솟솠송솢솣솤솥솦솧",
       "솨솩솪솫솬솭솮솯솰솱솲솳솴솵솶솷솸솹솺솻솼솽솾솿쇀쇁쇂쇃쇄쇅쇆쇇쇈쇉쇊쇋쇌쇍쇎쇏",
       "쇐쇑쇒쇓쇔쇕쇖쇗쇘쇙쇚쇛쇜쇝쇞쇟쇠쇡쇢쇣쇤쇥쇦쇧쇨쇩쇪쇫쇬쇭쇮쇯쇰쇱쇲쇳쇴쇵쇶쇷",
       "쇸쇹쇺쇻쇼쇽쇾쇿슀슁슂슃슄슅슆슇슈슉슊슋슌슍슎슏슐슑슒슓슔슕슖슗슘슙슚슛슜슝슞슟",
       "슠슡슢슣스슥슦슧슨슩슪슫슬슭슮슯슰슱슲슳슴습슶슷슸승슺슻슼슽슾슿싀싁싂싃싄싅싆싇",
       "싈싉싊싋싌싍싎싏싐싑싒싓싔싕싖싗싘싙싚싛시식싞싟신싡싢싣실싥싦싧싨싩싪싫심십싮싯",
       "싰싱싲싳싴싵싶싷싸싹싺싻싼싽싾싿쎀쎁쎂쎃쎄쎅쎆쎇쎈쎉쎊쎋쎌쎍쎎쎏쎐쎑쎒쎓쎔쎕쎖쎗",
       "쎘쎙쎚쎛쎜쎝쎞쎟쎠쎡쎢쎣쎤쎥쎦쎧쎨쎩쎪쎫쎬쎭쎮쎯쎰쎱쎲쎳쎴쎵쎶쎷쎸쎹쎺쎻쎼쎽쎾쎿",
       "쏀쏁쏂쏃쏄쏅쏆쏇쏈쏉쏊쏋쏌쏍쏎쏏쏐쏑쏒쏓쏔쏕쏖쏗쏘쏙쏚쏛쏜쏝쏞쏟쏠쏡쏢쏣쏤쏥쏦쏧",
       "쏨쏩쏪쏫쏬쏭쏮쏯쏰쏱쏲쏳쏴쏵쏶쏷쏸쏹쏺쏻쏼쏽쏾쏿쒀쒁쒂쒃쒄쒅쒆쒇쒈쒉쒊쒋쒌쒍쒎쒏",
       "쒐쒑쒒쒓쒔쒕쒖쒗쒘쒙쒚쒛쒜쒝쒞쒟쒠쒡쒢쒣쒤쒥쒦쒧쒨쒩쒪쒫쒬쒭쒮쒯쒰쒱쒲쒳쒴쒵쒶쒷",
       "쒸쒹쒺쒻쒼쒽쒾쒿쓀쓁쓂쓃쓄쓅쓆쓇쓈쓉쓊쓋쓌쓍쓎쓏쓐쓑쓒쓓쓔쓕쓖쓗쓘쓙쓚쓛쓜쓝쓞쓟",
       "쓠쓡쓢쓣쓤쓥쓦쓧쓨쓩쓪쓫쓬쓭쓮쓯쓰쓱쓲쓳쓴쓵쓶쓷쓸쓹쓺쓻쓼쓽쓾쓿얀얁얂얃얄얅얆얇",
       "얈얉얊얋얌얍얎얏얐양얒얓얔얕얖얗얘얙얚얛얜얝얞얟얠얡얢얣얤얥얦얧얨얩얪얫얬얭얮얯",
       "얰얱얲얳어억얶얷언얹얺얻얼얽얾얿엀엁엂엃엄업없엇었엉엊엋엌엍엎엏에엑엒엓엔엕엖엗",
       "엘엙엚엛엜엝엞엟엠엡엢엣엤엥엦엧엨엩엪엫여역엮엯연엱엲엳열엵엶엷엸엹엺엻염엽엾엿",
       "욀욁욂욃욄욅욆욇욈욉욊욋욌욍욎욏욐욑욒욓요욕욖욗욘욙욚욛욜욝욞욟욠욡욢욣욤욥욦욧",
       "욨용욪욫욬욭욮욯우욱욲욳운욵욶욷울욹욺욻욼욽욾욿움웁웂웃웄웅웆웇웈웉웊웋워웍웎웏",
       "원웑웒웓월웕웖웗웘웙웚웛웜웝웞웟웠웡웢웣웤웥웦웧웨웩웪웫웬웭웮웯웰웱웲웳웴웵웶웷",
       "웸웹웺웻웼웽웾웿잀잁잂잃임입잆잇있잉잊잋잌잍잎잏자작잒잓잔잕잖잗잘잙잚잛잜잝잞잟",
       "잠잡잢잣잤장잦잧잨잩잪잫재잭잮잯잰잱잲잳잴잵잶잷잸잹잺잻잼잽잾잿쟀쟁쟂쟃쟄쟅쟆쟇",
       "쟈쟉쟊쟋쟌쟍쟎쟏쟐쟑쟒쟓쟔쟕쟖쟗쟘쟙쟚쟛쟜쟝쟞쟟쟠쟡쟢쟣쟤쟥쟦쟧쟨쟩쟪쟫쟬쟭쟮쟯",
       "쟰쟱쟲쟳쟴쟵쟶쟷쟸쟹쟺쟻쟼쟽쟾쟿좀좁좂좃좄종좆좇좈좉좊좋좌좍좎좏좐좑좒좓좔좕좖좗",
       "좘좙좚좛좜좝좞좟좠좡좢좣좤좥좦좧좨좩좪좫좬좭좮좯좰좱좲좳좴좵좶좷좸좹좺좻좼좽좾좿",
       "죀죁죂죃죄죅죆죇죈죉죊죋죌죍죎죏죐죑죒죓죔죕죖죗죘죙죚죛죜죝죞죟죠죡죢죣죤죥죦죧",
       "죨죩죪죫죬죭죮죯죰죱죲죳죴죵죶죷죸죹죺죻주죽죾죿즀즁즂즃즄즅즆즇즈즉즊즋즌즍즎즏",
       "즐즑즒즓즔즕즖즗즘즙즚즛즜증즞즟즠즡즢즣즤즥즦즧즨즩즪즫즬즭즮즯즰즱즲즳즴즵즶즷",
       "즸즹즺즻즼즽즾즿지직짂짃진짅짆짇질짉짊짋짌짍짎짏짐집짒짓짔징짖짗짘짙짚짛짜짝짞짟",
       "짠짡짢짣짤짥짦짧짨짩짪짫짬짭짮짯짰짱짲짳짴짵짶짷째짹짺짻짼짽짾짿쪀쪁쪂쪃쪄쪅쪆쪇",
       "쪈쪉쪊쪋쪌쪍쪎쪏쪐쪑쪒쪓쪔쪕쪖쪗쪘쪙쪚쪛쪜쪝쪞쪟쪠쪡쪢쪣쪤쪥쪦쪧쪨쪩쪪쪫쪬쪭쪮쪯",
       "쪰쪱쪲쪳쪴쪵쪶쪷쪸쪹쪺쪻쪼쪽쪾쪿쫀쫁쫂쫃쫄쫅쫆쫇쫈쫉쫊쫋쫌쫍쫎쫏쫐쫑쫒쫓쫔쫕쫖쫗",
       "쫘쫙쫚쫛쫜쫝쫞쫟쫠쫡쫢쫣쫤쫥쫦쫧쫨쫩쫪쫫쫬쫭쫮쫯쫰쫱쫲쫳쫴쫵쫶쫷쫸쫹쫺쫻쫼쫽쫾쫿",
       "쮀쮁쮂쮃쮄쮅쮆쮇쮈쮉쮊쮋쮌쮍쮎쮏쮐쮑쮒쮓쮔쮕쮖쮗쮘쮙쮚쮛쮜쮝쮞쮟쮠쮡쮢쮣쮤쮥쮦쮧",
       "쮨쮩쮪쮫쮬쮭쮮쮯쮰쮱쮲쮳쮴쮵쮶쮷쮸쮹쮺쮻쮼쮽쮾쮿쯀쯁쯂쯃쯄쯅쯆쯇쯈쯉쯊쯋쯌쯍쯎쯏",
       "쯐쯑쯒쯓쯔쯕쯖쯗쯘쯙쯚쯛쯜쯝쯞쯟쯠쯡쯢쯣쯤쯥쯦쯧쯨쯩쯪쯫쯬쯭쯮쯯쯰쯱쯲쯳쯴쯵쯶쯷",
       "쯸쯹쯺쯻쯼쯽쯾쯿첀첁첂첃첄첅첆첇첈첉첊첋첌첍첎첏첐첑첒첓첔첕첖첗처척첚첛천첝첞첟",
       "철첡첢첣첤첥첦첧첨첩첪첫첬청첮첯첰첱첲첳체첵첶첷첸첹첺첻첼첽첾첿쳀쳁쳂쳃쳄쳅쳆쳇",
       "쳈쳉쳊쳋쳌쳍쳎쳏쳐쳑쳒쳓쳔쳕쳖쳗쳘쳙쳚쳛쳜쳝쳞쳟쳠쳡쳢쳣쳤쳥쳦쳧쳨쳩쳪쳫쳬쳭쳮쳯",
       "쳰쳱쳲쳳쳴쳵쳶쳷쳸쳹쳺쳻쳼쳽쳾쳿춀춁춂춃춄춅춆춇춈춉춊춋춌춍춎춏춐춑춒춓추축춖춗",
       "춘춙춚춛출춝춞춟춠춡춢춣춤춥춦춧춨충춪춫춬춭춮춯춰춱춲춳춴춵춶춷춸춹춺춻춼춽춾춿",
       "췀췁췂췃췄췅췆췇췈췉췊췋췌췍췎췏췐췑췒췓췔췕췖췗췘췙췚췛췜췝췞췟췠췡췢췣췤췥췦췧",
       "취췩췪췫췬췭췮췯췰췱췲췳췴췵췶췷췸췹췺췻췼췽췾췿캀캁캂캃캄캅캆캇캈캉캊캋캌캍캎캏",
       "캐캑캒캓캔캕캖캗캘캙캚캛캜캝캞캟캠캡캢캣캤캥캦캧캨캩캪캫캬캭캮캯캰캱캲캳캴캵캶캷",
       "캸캹캺캻캼캽캾캿컀컁컂컃컄컅컆컇컈컉컊컋컌컍컎컏컐컑컒컓컔컕컖컗컘컙컚컛컜컝컞컟",
       "컠컡컢컣커컥컦컧컨컩컪컫컬컭컮컯컰컱컲컳컴컵컶컷컸컹컺컻컼컽컾컿쾀쾁쾂쾃쾄쾅쾆쾇",
       "쾈쾉쾊쾋쾌쾍쾎쾏쾐쾑쾒쾓쾔쾕쾖쾗쾘쾙쾚쾛쾜쾝쾞쾟쾠쾡쾢쾣쾤쾥쾦쾧쾨쾩쾪쾫쾬쾭쾮쾯",
       "쾰쾱쾲쾳쾴쾵쾶쾷쾸쾹쾺쾻쾼쾽쾾쾿쿀쿁쿂쿃쿄쿅쿆쿇쿈쿉쿊쿋쿌쿍쿎쿏쿐쿑쿒쿓쿔쿕쿖쿗",
       "쿘쿙쿚쿛쿜쿝쿞쿟쿠쿡쿢쿣쿤쿥쿦쿧쿨쿩쿪쿫쿬쿭쿮쿯쿰쿱쿲쿳쿴쿵쿶쿷쿸쿹쿺쿻쿼쿽쿾쿿",
       "킀킁킂킃킄킅킆킇킈킉킊킋킌킍킎킏킐킑킒킓킔킕킖킗킘킙킚킛킜킝킞킟킠킡킢킣키킥킦킧",
       "킨킩킪킫킬킭킮킯킰킱킲킳킴킵킶킷킸킹킺킻킼킽킾킿타탁탂탃탄탅탆탇탈탉탊탋탌탍탎탏",
       "탐탑탒탓탔탕탖탗탘탙탚탛태택탞탟탠탡탢탣탤탥탦탧탨탩탪탫탬탭탮탯탰탱탲탳탴탵탶탷",
       "탸탹탺탻탼탽탾탿톀톁톂톃톄톅톆톇톈톉톊톋톌톍톎톏톐톑톒톓톔톕톖톗톘톙톚톛톜톝톞톟",
       "토톡톢톣톤톥톦톧톨톩톪톫톬톭톮톯톰톱톲톳톴통톶톷톸톹톺톻톼톽톾톿퇀퇁퇂퇃퇄퇅퇆퇇",
       "퇈퇉퇊퇋퇌퇍퇎퇏퇐퇑퇒퇓퇔퇕퇖퇗퇘퇙퇚퇛퇜퇝퇞퇟퇠퇡퇢퇣퇤퇥퇦퇧퇨퇩퇪퇫퇬퇭퇮퇯",
       "퇰퇱퇲퇳퇴퇵퇶퇷퇸퇹퇺퇻퇼퇽퇾퇿튀튁튂튃튄튅튆튇튈튉튊튋튌튍튎튏튐튑튒튓튔튕튖튗",
       "튘튙튚튛튜튝튞튟튠튡튢튣튤튥튦튧튨튩튪튫튬튭튮튯튰튱튲튳튴튵튶튷트특튺튻튼튽튾튿",
       "틀틁틂틃틄틅틆틇틈틉틊틋틌틍틎틏틐틑틒틓틔틕틖틗틘틙틚틛틜틝틞틟틠틡틢틣틤틥틦틧",
       "틨틩틪틫틬틭틮틯티틱틲틳틴틵틶틷틸틹틺틻틼틽틾틿펀펁펂펃펄펅펆펇펈펉펊펋펌펍펎펏",
       "펐펑펒펓펔펕펖펗페펙펚펛펜펝펞펟펠펡펢펣펤펥펦펧펨펩펪펫펬펭펮펯펰펱펲펳펴펵펶펷",
       "편펹펺펻펼펽펾펿폀폁폂폃폄폅폆폇폈평폊폋폌폍폎폏폐폑폒폓폔폕폖폗폘폙폚폛폜폝폞폟",
       "폠폡폢폣폤폥폦폧폨폩폪폫포폭폮폯폰폱폲폳폴폵폶폷폸폹폺폻폼폽폾폿풀풁풂풃풄풅풆풇",
       "품풉풊풋풌풍풎풏풐풑풒풓풔풕풖풗풘풙풚풛풜풝풞풟풠풡풢풣풤풥풦풧풨풩풪풫풬풭풮풯",
       "풰풱풲풳풴풵풶풷풸풹풺풻풼풽풾풿퓀퓁퓂퓃퓄퓅퓆퓇퓈퓉퓊퓋퓌퓍퓎퓏퓐퓑퓒퓓퓔퓕퓖퓗",
       "퓘퓙퓚퓛퓜퓝퓞퓟퓠퓡퓢퓣퓤퓥퓦퓧퓨퓩퓪퓫퓬퓭퓮퓯퓰퓱퓲퓳퓴퓵퓶퓷퓸퓹퓺퓻퓼퓽퓾퓿",
       "햀햁햂햃햄햅햆햇했행햊햋햌햍햎햏햐햑햒햓햔햕햖햗햘햙햚햛햜햝햞햟햠햡햢햣햤향햦햧",
       "햨햩햪햫햬햭햮햯햰햱햲햳햴햵햶햷햸햹햺햻햼햽햾햿헀헁헂헃헄헅헆헇허헉헊헋헌헍헎헏",
       "헐헑헒헓헔헕헖헗험헙헚헛헜헝헞헟헠헡헢헣헤헥헦헧헨헩헪헫헬헭헮헯헰헱헲헳헴헵헶헷",
       "헸헹헺헻헼헽헾헿횀횁횂횃횄횅횆횇횈횉횊횋회획횎횏횐횑횒횓횔횕횖횗횘횙횚횛횜횝횞횟",
       "횠횡횢횣횤횥횦횧효횩횪횫횬횭횮횯횰횱횲횳횴횵횶횷횸횹횺횻횼횽횾횿훀훁훂훃후훅훆훇",
       "훈훉훊훋훌훍훎훏훐훑훒훓훔훕훖훗훘훙훚훛훜훝훞훟훠훡훢훣훤훥훦훧훨훩훪훫훬훭훮훯",
       "훰훱훲훳훴훵훶훷훸훹훺훻훼훽훾훿힀힁힂힃힄힅힆힇히힉힊힋힌힍힎힏힐힑힒힓힔힕힖힗",
       "힘힙힚힛힜힝힞힟힠힡힢힣힤힥힦힧힨힩힪힫힬힭힮힯ힰힱힲힳힴힵힶힷힸힹힺힻힼힽힾힿ",
       "ퟀퟁퟂퟃퟄퟅퟆ퟇퟈퟉퟊ퟋퟌퟍퟎퟏퟐퟑퟒퟓퟔퟕퟖퟗퟘퟙퟚퟛퟜퟝퟞퟟퟠퟡퟢퟣퟤퟥퟦퟧ",
       "ퟨퟩퟪퟫퟬퟭퟮퟯퟰퟱퟲퟳퟴퟵퟶퟷퟸퟹퟺퟻ퟼퟽퟾퟿呂女廬旅濾礪閭驪麗黎力曆歷轢年憐",
       "戀撚漣煉璉秊練聯輦蓮連鍊列劣咽烈裂說廉念捻殮簾獵令囹寧嶺怜玲瑩羚聆鈴零靈領例禮醴",
       "隸惡了僚寮尿料樂燎療蓼遼龍暈阮劉杻柳流溜琉留硫紐類六戮陸倫崙淪輪律慄栗率隆利吏履",
       "易李梨泥理痢罹裏裡里離匿溺吝燐璘藺隣鱗麟林淋臨立笠粒狀炙識什茶刺婢嬨廒廙彩徭惘慎",
       "愈憎慠懲戴揄搜摒敖晴朗望杖歹殺流滛滋漢瀞煮瞧爵犯猪瑱甆画瘝瘟益盛直睊着磌窱節类絛",
       "練缾者荒華蝹襁覆視調諸請謁諾諭謹變贈輸遲醙鉶陼難靖韛響頋頻鬒龜𢡊𢡄𣏕㮝䀘䀹𥉉𥳐𧻓",
       "齃龎﫚﫛﫜﫝﫞﫟﫠﫡﫢﫣﫤﫥﫦﫧﫨﫩﫪﫫﫬﫭﫰﫱﫲﫳﫴﫵﫶﫷﫸﫹﫺﫻﫼﫽﫾﫿ﮀﮁ",
       "ﮂﮃﮄﮅﮆﮇﮈﮉﮊﮋﮌﮍﮎﮏﮐﮑﮒﮓﮔﮕﮖﮗﮘﮙﮚﮛﮜﮝﮞﮟﮠﮡﮢﮣﮤﮥﮦﮧﮨﮩ",
       "ﮪﮫﮬﮭﮮﮯﮰﮱ﯃﯄﯆﯇﯈﯉﯊﯋﯌﯍﯎﯏﯐﯑﯒ﯓﯔﯕﯖﯗﯘﯙﯚﯛﯜﯝﯞﯟﯠﯡﯢﯣ",
       "ﯤﯥﯦﯧﯨﯩﯪﯫﯬﯭﯮﯯﯰﯱﯲﯳﯴﯵﯶﯷﯸﯹﯺﯻﯼﯽﯾﯿﲀﲁﲂﲃﲄﲅﲆﲇﲈﲉﲊﲋ",
       "ﲌﲍﲎﲏﲐﲑﲒﲓﲔﲕﲖﲗﲘﲙﲚﲛﲜﲝﲞﲟﲠﲡﲢﲣﲤﲥﲦﲧﲨﲩﲪﲫﲬﲭﲮﲯﲰﲱﲲﲳ",
       "ﲴﲵﲶﲷﲸﲹﲺﲻﲼﲽﲾﲿﳀﳁﳂﳃﳄﳅﳆﳇﳈﳉﳊﳋﳌﳍﳎﳏﳐﳑﳒﳓﳔﳕﳖﳗﳘﳙﳚﳛ",
       "ﳜﳝﳞﳟﳠﳡﳢﳣﳤﳥﳦﳧﳨﳩﳪﳫﳬﳭﳮﳯﳰﳱﳲﳳﳴﳵﳶﳷﳸﳹﳺﳻﳼﳽﳾﳿﶀﶁﶂﶃ",
       "ﶄﶅﶆﶇﶈﶉﶊﶋﶌﶍﶎﶏ﶐﶑ﶒﶓﶔﶕﶖﶗﶘﶙﶚﶛﶜﶝﶞﶟﶠﶡﶢﶣﶤﶥﶦﶧﶨﶩﶪﶫ",
       "ﶬﶭﶮﶯﶰﶱﶲﶳﶴﶵﶶﶷﶸﶹﶺﶻﶼﶽﶾﶿﷀﷁﷂﷃﷄﷅﷆﷇ﷐﷑﷒﷓﷔﷕﷖﷗﷘﷙﷚﷛",
       "﷜﷝﷞﷟﷠﷡﷢﷣﷤﷥﷦﷧﷨﷩﷪﷫﷬﷭﷮﷯ﷰﷱﷲﷳﷴﷵﷶﷷﷸﷹﷺﷻ﷼﷽﷾﷿ﺀﺁﺂﺃ",
       "ﺄﺅﺆﺇﺈﺉﺊﺋﺌﺍﺎﺏﺐﺑﺒﺓﺔﺕﺖﺗﺘﺙﺚﺛﺜﺝﺞﺟﺠﺡﺢﺣﺤﺥﺦﺧﺨﺩﺪﺫ",
       "ﺬﺭﺮﺯﺰﺱﺲﺳﺴﺵﺶﺷﺸﺹﺺﺻﺼﺽﺾﺿﻀﻁﻂﻃﻄﻅﻆﻇﻈﻉﻊﻋﻌﻍﻎﻏﻐﻑﻒﻓ",
       "ﻔﻕﻖﻗﻘﻙﻚﻛﻜﻝﻞﻟﻠﻡﻢﻣﻤﻥﻦﻧﻨﻩﻪﻫﻬﻭﻮﻯﻰﻱﻲﻳﻴﻵﻶﻷﻸﻹﻺﻻ",
       "ﻼ﻽﻾ﾀﾁﾂﾃﾄﾅﾆﾇﾈﾉﾊﾋﾌﾍﾎﾏﾚﾛﾜﾝﾞﾟﾠﾡﾢﾣﾤﾥﾦﾧﾨﾩﾪﾫﾬﾭﾮ",
       "ﾯﾰﾱﾲﾳﾴﾵﾶﾷﾸﾹﾺﾻﾼﾽﾾ￁ￂￃￄￅￆￇ￈￉ￊￋￌￍￎￏ￐￑ￒￓￔￕￖￗ￘",
       "￙ￚￛￜ￦￧￨￩￪￫￬￭￮￯￰￱￲￳￴￵￶￷￸￼�￾￿￿￿￿￿￿￿￿￿￿￿￿￿￿" >>

\* \w : letters, numerals and the underscore.  The circled letters have a
\* lower case and are symbols.
WordChar ==
    (Upper \cup Digit \cup {"_"}
        \cup {Char(LowerCase, i) : i \in 1..Len(LowerCase)}
        \cup {Char(OtherDigits, i) : i \in 1..Len(OtherDigits)}
        \cup {Char(OtherLetters[r], i) : r \in 1..Len(OtherLetters), i \in 1..40})
    \ {Char("ⒶⒷⒸⒹⒺⒻⒼⒽⒾⒿⓀⓁⓂⓃⓄⓅⓆⓇⓈⓉⓊⓋⓌⓍⓎⓏ" \o
            "ⓐⓑⓒⓓⓔⓕⓖⓗⓘⓙⓚⓛⓜⓝⓞⓟⓠⓡⓢⓣⓤⓥⓦⓧⓨⓩ", i) : i \in 1..52}

\* \s, and what str.strip() takes off: U+0009 to U+000D, U+001C to U+001F,
\* U+0020, U+0085, U+00A0, U+1680, U+2000 to U+200A, U+2028, U+2029, U+202F,
\* U+205F and U+3000
Space ==
    {"\t", "\n", "\f", "\r", " "}
        \cup {Char("", i) : i \in 1..5}
        \cup {Char("  ₀₁₂₃₄₅₆₇₈₉₊₨₩₯⃟む", i) : i \in 1..19}

\* What int() takes off: the white space without U+001C to U+001F
IntSpace == Space \ {Char("", i) : i \in 1..4}

\* The characters Unicode calls case-ignorable: combining marks, modifier
\* letters and symbols, format characters, the apostrophe, the full stop,
\* the colon and the like
CaseIgnorable ==
    {Char(marks, i) : marks \in {
        "'.:^¨­¯´·¸ʰʺʽʾ˃˄˅ˈː΀΁΂΃΄΅·΋΍΢ΪϴϵϺ֖֒֓֔֕֗֘",
        "ְֱֲֳִֵֶַָֹֺֻּֽֿׁׂ֛֢֣֤֥֦֧֪֚֭֮֙֜֝֞֟֠֡֨֩֫֬֯",
        "ׇׅׄ״۔ۖۗۘۙۚۛۜ۝۞۪ۭ۟۫۬ަާިީުޫެޭޮޯް޲޳޴޵޶޷޸޹޺޻",
        "޼޽޾޿߲߫߬߭߮߯߰߱߳ߴߵߺ߽࢈࢐࢑࢖࢙࢚࢛ࢗ࢘࢜࢝࢞࢟ࣉ࣏࣐࣑࣒࣊࣋࣌࣍࣎",
        "࣓ࣔࣕࣖࣗࣘࣙࣚࣛࣜࣝࣞࣟ࣠࣡࣢ࣰࣱࣲࣣࣦࣩ࣭࣮࣯ࣶࣹࣺࣤࣥࣧࣨ࣪࣫࣬ࣳࣴࣵࣷࣸ",
        "ࣻࣼࣽࣾࣿঀঁং঺়ুূৃৄ৅৆েৈ্৑৒৓৔৕৖ৗৢৣৱઁં઼ુૂૃૄૅેૈો",
        "ૌ્૑ૢૣ૰૱૵ૺૻૼ૽૾૿஁ஂ஼ீ௃௄்௕௖௢௣ಀ಄಼ಾಿೀೆೇೈೊೋೌ್ೕೖ",
        "ೢೣ඀ඁ඼්෍ිීුූ෢෣ັິີຶື຺ຸູົຼໆ໇່້໊໋໌ໍ໎྄ཱྀྀྂྃ྆྇ྍ",
        "ྎྏྐྑྒྒྷྔྕྖྗ྘ྙྚྛྜྜྷྞྟྪྫྫྷྭྮྯྰྱྲླྴྵྶྷྸྐྵྺྻྼ࿆࿱࿲",
        "࿳࿴࿵࿶࿷࿸࿹࿺࿻࿼࿽࿾ႂႅႆႍႝჼ឴឵ិីឹឺុូួំ៉៊់៌៍៎៏័៑្៓ៗ",
        "៝ᢅᢆᢩ᪛ᪧ᪵᪶᪷᪸᪹᪺᪽᪰᪱᪲᪳᪴᪻᪼᪾ᪿᫀ᫃᫄᫊᫁᫂᫅᫆᫇᫈᫉᫋ᫌᫍᫎ᫖᫘᫙",
        "᫚᫛᫜᫝᫞᫠᫢᫥᫦᫧᫨᫩᫪᫫᫬᫳᫴᫵᫶᫷᫸᫹᫺᫻᫼᫿ᮀᮁᮂᮢᮣᮤᮥᮨᮩ᮫ᮬᮭ᯦ᯨ",
        "ᯩᯫᯬᯭᯮᯯᯰᯱ᳢᳣᳤᳥᳦᳧᳨᯲᯳᳜᳝᳞᳟᳭᳚᳛᳠᳴᳸᳹᳻᳼᳽ᶛᶜᶝᶞᶟᶠᶡᶢᶣ",
        "ᶤᶥᶦᶧᶨᶩᶪᶫᶬᶭᶮᶯᶰᶱᶲᶳᶴᶵᶶᶷᶸᶹᶺᶻᶼᶽᶾᶿ᷂᷊᷀᷁᷃᷄᷅᷆᷇᷈᷉᷋",
        "᷐᷎᷏᷌᷑᷒ᷓᷔᷕᷖᷗᷘᷙᷚᷛᷜᷝᷞᷟᷠᷡᷢᷣᷤᷥᷦᷧᷨᷩᷪᷫᷬᷭᷮᷯᷰᷱᷲᷳ᷍",
        "᷺᷹᷽᷿᷷᷸ᷴ᷵᷻᷾᷶᷼᾽᾿῀῁῍῎῏῝῞῟῭΅`´῾₋₌₍₎₏ₐₑₒₓₔₕₖₗ",
        "ₘₙₚₛₜ₤₧₪₫€₭₮⃒⃓⃘⃙⃚⃐⃑⃔⃕⃖⃗⃛⃜⃝⃞⃠⃡⃢⃣⃤⃥⃦⃪⃫⃨⃬⃧⃩",
        "⃭⃮⃯⃱⃿⳯⳰⳱⳼ⷠⷡⷢⷣⷤⷥⷦⷧⷨⷩⷪⷫⷬⷭⷮⷯⷰⷱⷲⷳⷴⷵⷶⷷⷸⷹⷺⷻⷼⷽⷾ",
        "ⷿ⺯゙゚゛゜ゝゞーヽヾꓸꓹꓺꓻꓼꓽꚜꚝꚞꚟ꛰꛱꛲꛴꛵꛶꛷꛸꛹꛺꛻꛼꛽꛿ꞈ꞉꞊꟰ꟲ",
        "ꟳꟴꟸꟹ꣄ꣅ꣠꣡꣢꣣꣤꣥꣦꣧꣨꣩꣪꣫꣬꣭꣮꣯꣰꣱ꣿ꦳ꦶꦷꦸꦹꦼꦽ꧇꧈꧉꧊꧋꧌꧍꧎",
        "ꧏꧥꧦꪴꪰꪲꪳꪷꪸꪾ꪿꫁꫃꫌ꫝꫬꫭ꫰ꫳꫴ꫶꫼ꯥꯨꯩꯪ꯫꯭﮲﮳﮴﮵﮶﮷﮸﮹﮺﮻﮼﮽",
        "﮾﮿﯀﯁﯂﻿ﾞﾟ￀￣￰￹￺￻￻￻￻￻￻￻￻￻￻￻￻￻￻￻￻￻￻￻￻￻￻￻￻￻￻￻"}, i \in 1..40}

\* The characters Unicode calls cased, of those that are not
\* case-ignorable: the letters of UpperCase and LowerCase, and the letters
\* of one case only
Cased ==
    Upper \cup {Char(LowerCase, i) : i \in 1..Len(LowerCase)}
        \cup {Char(letters, i) : letters \in {
        "ªµºƨưƱƸǉǿʊʋʠʡʱʴʵʶʷʸʹˉˑ˒˓˔˕˖˗˘˙˚˛˝˞˟ˠˢˣˤ˧",
        "˨˩˫˭ˮ˯˰˱˲˳˴˵˶˷˸˹˺˻˼˽˾˿ΐΰςϊϐϑϒϓϔϕϖϸϻϼրցւփ",
        "քօֆևֈ։׫׬׭׵׷ᲀᲁᲂᲃᲄᲅᲆᲇᲈᶀᶁᶂᶃᶄᶅᶆᶇᶈᶉᶊᶋᶌᶍᶏᶐᶑᶒᶓᶔ",
        "ᶕᶖᶗᶘᶙᶚẖẗẘẙẚẛẜẝẟᾲᾴ᾵ᾶᾷιῂῄ῅ῆῇῒΐ῔῕ῖῗῢΰῤῦῧῸΌ↊",
        "↋↌↍↎↏←↑→↓↕↙↚↛↜↝↤↨↬↭↯↰↱↳↴↹↼↽↾↿⇅⇆⇇⇈⇉ⳤ⳥⳦⳴⳷⳸",
        "⳹⳺⳻⶧ꞎꞕꞯꞰꞱꟋ꟱ꟺꯣꯤꯦꯧ￁￈￉￐￑￘￙￙￙￙￙￙￙￙￙￙￙￙￙￙￙￙￙￙"}, i \in 1..40}

\* str.lower() of one character
LowerChar(c) ==
    IF c \in Upper
    THEN Char(LowerCase, CHOOSE i \in 1..Len(UpperCase) : Char(UpperCase, i) = c)
    ELSE c

\* The capital sigma at place i ends a word: of the characters that are not
\* case-ignorable, the one before it is cased and the one after it, if
\* there is one, is not.  str.lower() makes a final sigma of it.
FinalSigma(s, i) ==
    /\ \E j \in 1..(i - 1) :
          /\ Char(s, j) \in Cased \ CaseIgnorable
          /\ \A k \in (j + 1)..(i - 1) : Char(s, k) \in CaseIgnorable
    /\ \A j \in (i + 1)..Len(s) :
          \/ Char(s, j) \notin Cased \ CaseIgnorable
          \/ \E k \in (i + 1)..(j - 1) : Char(s, k) \notin CaseIgnorable

\* str.lower() of the characters of s from place i to place j, half by half
RECURSIVE LowerBetween(_, _, _)
LowerBetween(s, i, j) ==
    IF i > j THEN ""
    ELSE IF i = j
    THEN IF Char(s, i) = "Σ" /\ FinalSigma(s, i) THEN "ς" ELSE LowerChar(Char(s, i))
    ELSE LowerBetween(s, i, (i + j) \div 2) \o LowerBetween(s, (i + j) \div 2 + 1, j)

\* str.lower()
lower(s) == LowerBetween(s, 1, Len(s))

\* s[i-1:].startswith(lit), positions counted from 1
StartsWithAt(s, i, lit) ==
    /\ i >= 1
    /\ i + Len(lit) - 1 <= Len(s)
    /\ SubSeq(s, i, i + Len(lit) - 1) = lit

\* lit in s
Contains(s, lit) == \E i \in 1..(Len(s) + 1) : StartsWithAt(s, i, lit)

\* str.isdigit()
isdigit(s) ==
    /\ Len(s) > 0
    /\ \A i \in 1..Len(s) : Char(s, i) \in Digit \/ Contains(OtherDigits, Char(s, i))

IsWordAt(s, i) == i >= 1 /\ i <= Len(s) /\ Char(s, i) \in WordChar

\* \b before position i (i = Len(s) + 1 is the end of the string)
Boundary(s, i) == IsWordAt(s, i - 1) # IsWordAt(s, i)

\* The position after the longest run of characters of class S starting at
\* i, taking at most max of them: a greedy S{0,max}.
RECURSIVE RunEnd(_, _, _, _)
RunEnd(s, i, S, max) ==
    IF max = 0 \/ i > Len(s) \/ Char(s, i) \notin S
    THEN i
    ELSE RunEnd(s, i + 1, S, max - 1)

\* No bound on the run: a greedy S*
Unbounded(s) == Len(s) + 1

NoMatch == 0

\* What a call gives its caller: the text it returns, or the exception it
\* raises.  No text is an exception: a call that returns the text t gives
\* Returned(t), whatever t reads, and a call that raises gives ValueError.
Returned(t) == [raised |-> FALSE, text |-> t]

\* A call in which the Python code raises ValueError returns no text
ValueError == [raised |-> TRUE, text |-> ""]

\* s.split(sep) for a one-character sep
RECURSIVE SplitFrom(_, _, _, _)
SplitFrom(s, sep, i, start) ==
    IF i > Len(s)
    THEN <<SubSeq(s, start, Len(s))>>
    ELSE IF Char(s, i) = sep
         THEN <<SubSeq(s, start, i - 1)>> \o SplitFrom(s, sep, i + 1, i + 1)
         ELSE SplitFrom(s, sep, i + 1, start)

split(s, sep) == SplitFrom(s, sep, 1, 1)

\* s with the characters of S taken off both its ends
RECURSIVE Stripped(_, _)
Stripped(s, S) ==
    IF Len(s) > 0 /\ Char(s, 1) \in S THEN Stripped(SubSeq(s, 2, Len(s)), S)
    ELSE IF Len(s) > 0 /\ Char(s, Len(s)) \in S THEN Stripped(SubSeq(s, 1, Len(s) - 1), S)
    ELSE s

\* s.strip()
strip(s) == Stripped(s, Space)

\* The value of one decimal digit
DigitValue(c) ==
    (CHOOSE i \in 1..10 : \E r \in 1..Len(Decimals) : Char(Decimals[r], i) = c) - 1

\* The value of a numeral; the underscores between its digits count for
\* nothing
RECURSIVE DecimalValue(_)
DecimalValue(s) ==
    IF Len(s) = 0 THEN 0
    ELSE IF Char(s, Len(s)) = "_" THEN DecimalValue(SubSeq(s, 1, Len(s) - 1))
    ELSE 10 * DecimalValue(SubSeq(s, 1, Len(s) - 1)) + DigitValue(Char(s, Len(s)))

\* The numeral without the sign int() reads before it
Unsigned(t) ==
    IF Len(t) > 0 /\ Char(t, 1) \in {"+", "-"} THEN SubSeq(t, 2, Len(t)) ELSE t

\* What int() reads after the sign: decimal digits, with single
\* underscores between them
IsNumeral(u) ==
    /\ Len(u) > 0
    /\ Char(u, 1) \in Digit
    /\ Char(u, Len(u)) \in Digit
    /\ \A i \in 1..Len(u) :
          Char(u, i) \in Digit \/ (Char(u, i) = "_" /\ Char(u, i + 1) # "_")

\* int(s) raises ValueError unless s, without the white space int() takes
\* off, is a numeral
IntRaises(s) == ~IsNumeral(Unsigned(Stripped(s, IntSpace)))

int(s) ==
    IF StartsWithAt(Stripped(s, IntSpace), 1, "-")
    THEN 0 - DecimalValue(Unsigned(Stripped(s, IntSpace)))
    ELSE DecimalValue(Unsigned(Stripped(s, IntSpace)))

-----------------------------------------------------------------------------
(* The regular expressions of the source, written out.  A matcher takes    *)
(* the position i where the match is to start and gives the position after *)
(* the match, or NoMatch.  The pieces of a pattern are chained: each takes *)
(* the position the piece before it ended at, and passes NoMatch on.  The  *)
(* pieces are greedy and give nothing back; for the patterns below that is *)
(* what re does, since a shorter run of digits or of white space leaves a  *)
(* digit or a white space where the pattern needs something else.          *)

\* j when the run from i to j holds at least min characters
AtLeast(i, j, min) == IF j - i >= min THEN j ELSE NoMatch

\* S{min,max}, greedy
Many(s, i, S, min, max) ==
    IF i = NoMatch THEN NoMatch ELSE AtLeast(i, RunEnd(s, i, S, max), min)

\* The literal text lit
Lit(s, i, lit) ==
    IF i # NoMatch /\ StartsWithAt(s, i, lit) THEN i + Len(lit) ELSE NoMatch

\* (a|b|...) : no alternative of the source is the start of another
OneOf(s, i, lits) ==
    IF i # NoMatch /\ \E w \in lits : StartsWithAt(s, i, w)
    THEN i + Len(CHOOSE w \in lits : StartsWithAt(s, i, w))
    ELSE NoMatch

\* \b
B(s, i) == IF i # NoMatch /\ Boundary(s, i) THEN i ELSE NoMatch

\* (?<=[S]) : the character before i is of class S
Behind(s, i, S) ==
    IF i # NoMatch /\ i > 1 /\ Char(s, i - 1) \in S THEN i ELSE NoMatch

\* Two characters that are one under re.IGNORECASE: their lower cases are
\* the same, or are lower-case letters that re.IGNORECASE takes for one
\* another
SameIgnoringCase(c, d) ==
    \/ LowerChar(c) = LowerChar(d)
    \/ \E fix \in {{"i", "Ʊ"}, {"s", "ǿ"}, {"µ", "μ"}, {"ι", "ι"},
                    {"ΐ", "ΐ"}, {"ΰ", "ΰ"}, {"β", "ϐ"}, {"θ", "ϑ"},
                    {"π", "ϖ"}, {"ς", "σ"}, {"φ", "ϕ"}, {"Ҳ", "ᲀ"},
                    {"Ҵ", "ᲁ"}, {"Ҿ", "ᲂ"}, {"Ӂ", "ᲃ"},
                    {"ӂ", "ᲄ", "ᲅ"}, {"ӊ", "ᲆ"}, {"ӣ", "ᲇ"}} :
            LowerChar(c) \in fix /\ LowerChar(d) \in fix

\* The literal text word under re.IGNORECASE
LitIgnoreCase(s, i, word) ==
    IF /\ i # NoMatch
       /\ i + Len(word) - 1 <= Len(s)
       /\ \A j \in 1..Len(word) : SameIgnoringCase(Char(s, i + j - 1), Char(word, j))
    THEN i + Len(word)
    ELSE NoMatch

\* prefix\s*(\d+)   with prefix one of Rs\. Rs INR and the rupee sign
CurrencyAt(s, i, prefix) ==
    Many(s, Many(s, Lit(s, i, prefix), Space, 0, Unbounded(s)), Digit, 1, Unbounded(s))

\* The digits that end a currency match: group 1
RECURSIVE TrailingDigits(_)
TrailingDigits(m) ==
    IF Len(m) > 0 /\ Char(m, Len(m)) \in Digit
    THEN TrailingDigits(SubSeq(m, 1, Len(m) - 1)) \o Char(m, Len(m))
    ELSE ""

\* RupeesRepl with the group left out of the replacement
RupeesReplNoGroup(m) == "rupees "

\* r'rupees \1'
RupeesRepl(m) == "rupees " \o TrailingDigits(m)

\* Dr\.\s+
DrAt(s, i) == Many(s, Lit(s, i, "Dr."), Space, 1, Unbounded(s))

\* \b\d+\b
IntegerAt(s, i) == B(s, Many(s, B(s, i), Digit, 1, Unbounded(s)))

\* \d{1,2}/\d{1,2}/\d{2,4}
DateEnd(s, i) ==
    Many(s, Lit(s, Many(s, Lit(s, Many(s, i, Digit, 1, 2), "/"), Digit, 1, 2), "/"),
         Digit, 2, 4)

\* \b\d{1,2}/\d{1,2}/\d{2,4}\b
DateAt(s, i) == B(s, DateEnd(s, B(s, i)))

\* \d{1,2}:\d{2}
TimeEnd(s, i) == Many(s, Lit(s, Many(s, i, Digit, 1, 2), ":"), Digit, 2, 2)

\* \b\d{1,2}:\d{2}\b
TimeAt(s, i) == B(s, TimeEnd(s, B(s, i)))

Periods == {"AM", "PM", "am", "pm"}

\* \s*(AM|PM|am|pm) , or \s*(PM|pm)
PeriodEnd(s, i, periods) == OneOf(s, Many(s, i, Space, 0, Unbounded(s)), periods)

\* \d{1,2}:\d{2}\s*(AM|PM|am|pm)
AmPmEnd(s, i) == PeriodEnd(s, TimeEnd(s, i), Periods)

\* \b\d{1,2}:\d{2}\s*(AM|PM|am|pm)\b
AmPmAt(s, i) == B(s, AmPmEnd(s, B(s, i)))

\* (\d{2})\s*(AM|PM|am|pm)
MinutePeriodAt(s, i) == PeriodEnd(s, Many(s, i, Digit, 2, 2), Periods)

RoomWords == {"room", "ward", "chamber", "cabin"}

\* \b(room|ward|chamber|cabin)\s+\d+\b
RoomAt(s, i) ==
    B(s, Many(s, Many(s, OneOf(s, B(s, i), RoomWords), Space, 1, Unbounded(s)),
              Digit, 1, Unbounded(s)))

\* d(:| )dd\s*(PM|pm) with the literal digits d and dd
FixedTimeAt(s, i, d, dd) ==
    PeriodEnd(s, Lit(s, OneOf(s, Lit(s, i, d), {":", " "}), dd), {"PM", "pm"})

\* The Devanagari full stop U+0964, written as the tables below are
Danda == "৤"

SentenceEnd == {".", "!", "?", Danda}

\* (?<=[.!?|])\s+ with | the Devanagari full stop
SplitAt(s, i) == Many(s, Behind(s, i, SentenceEnd), Space, 1, Unbounded(s))

\* \bword\b with re.IGNORECASE
WordAt(s, i, word) == B(s, LitIgnoreCase(s, B(s, i), word))

\* The patterns handed to re.sub and re.split, as data: the kind of the
\* pattern and what it is made with
Currency(prefix) == <<"currency", prefix>>
Title == <<"title">>
Integer == <<"integer">>
Date == <<"date">>
AmPm == <<"ampm">>
Time == <<"time">>
FixedTime(d, dd) == <<"fixed time", d, dd>>
Word(word) == <<"word", word>>
SentenceBreak == <<"sentence break">>

\* The position after the match of pattern that starts at i, or NoMatch
MatchAt(pattern, s, i) ==
    CASE pattern[1] = "currency"       -> CurrencyAt(s, i, pattern[2])
      [] pattern[1] = "title"          -> DrAt(s, i)
      [] pattern[1] = "integer"        -> IntegerAt(s, i)
      [] pattern[1] = "date"           -> DateAt(s, i)
      [] pattern[1] = "ampm"           -> AmPmAt(s, i)
      [] pattern[1] = "time"           -> TimeAt(s, i)
      [] pattern[1] = "fixed time"     -> FixedTimeAt(s, i, pattern[2], pattern[3])
      [] pattern[1] = "word"           -> WordAt(s, i, pattern[2])
      [] pattern[1] = "exact word"     -> B(s, Lit(s, B(s, i), pattern[2]))
      [] pattern[1] = "sentence break" -> SplitAt(s, i)

\* The positions of s where the pattern matches
MatchPositions(pattern, s) == {k \in 1..Len(s) : MatchAt(pattern, s, k) # NoMatch}

\* The first of the positions P at or after i, or NoMatch
First(P, i) ==
    IF \A k \in P : k < i THEN NoMatch
    ELSE CHOOSE k \in P : k >= i /\ \A j \in P : j >= i => k <= j

\* What three calls in a row return, joined; the first of them that raises
\* ends the row with its exception
Joined(before, head, rest) ==
    IF before.raised THEN before
    ELSE IF head.raised THEN head
    ELSE IF rest.raised THEN rest
    ELSE Returned(before.text \o head.text \o rest.text)

\* re.split(pattern, s): the texts between the matches.  P is
\* MatchPositions(pattern, s); the scan takes the first match at or after i
\* and resumes after it.
RECURSIVE ReSplitFrom(_, _, _, _)

\* k is the first match at or after i, or NoMatch
ReSplitNext(pattern, s, i, P, k) ==
    IF k = NoMatch THEN <<SubSeq(s, i, Len(s))>>
    ELSE <<SubSeq(s, i, k - 1)>> \o ReSplitFrom(pattern, s, MatchAt(pattern, s, k), P)

ReSplitFrom(pattern, s, i, P) == ReSplitNext(pattern, s, i, P, First(P, i))

ReSplit(pattern, s) == ReSplitFrom(pattern, s, 1, MatchPositions(pattern, s))

-----------------------------------------------------------------------------
(* GoogleTTS_SSML.interpret_numbers                                        *)

SayAs(kind, body) == "<say-as interpret-as=\"" \o kind \o "\">" \o body \o "</say-as>"

SayAsFormat(kind, format, body) ==
    "<say-as interpret-as=\"" \o kind \o "\" format=\"" \o format \o "\">" \o body \o "</say-as>"

\* The literal words of the round values
RoundWords(number) ==
    IF number = "500" THEN "five hundred"
    ELSE IF number = "200" THEN "two hundred"
    ELSE IF number = "100" THEN "one hundred"
    ELSE IF number = "1000" THEN "one thousand"
    ELSE SayAs("cardinal", number)

\* if len(year) == 2: year = '20' + year
FullYear(year) == IF Len(year) = 2 THEN "20" \o year ELSE year

\* The date branch of repl, parts being number.split('/')
DateParts(number, parts) ==
    IF Len(parts) = 3
    THEN SayAsFormat("date", "dmy", parts[1] \o "/" \o parts[2] \o "/" \o FullYear(parts[3]))
    ELSE SayAsFormat("date", "dmy", number)

DateRepl(number) == DateParts(number, split(number, "/"))

\* The HH:MM branch of repl after the split: int(minute) raises unless
\* minute is a numeral
TimeWords(hour, minute) ==
    IF IntRaises(minute) THEN ValueError
    ELSE IF int(minute) = 0 THEN Returned(hour \o " o'clock")
    ELSE IF int(minute) = 30 THEN Returned(hour \o " thirty")
    ELSE Returned(SayAsFormat("time", "hms24", hour \o ":" \o minute))

\* hour, minute = number.split(':') raises unless there are two parts
TimeParts(parts) ==
    IF Len(parts) # 2 THEN ValueError ELSE TimeWords(parts[1], parts[2])

TimeRepl(number) == TimeParts(split(number, ":"))

\* The verbal forms of a time with its period
AmPmWords(hour, minute, period) ==
    IF int(minute) = 0 THEN hour \o " " \o lower(period)
    ELSE IF int(minute) = 30 THEN hour \o " thirty " \o lower(period)
    ELSE hour \o " " \o minute \o " " \o lower(period)

\* re.search(r'(\d{2})\s*(AM|PM|am|pm)', period): where the first match
\* starts, or NoMatch
MinutePeriodSearch(period) ==
    First({i \in 1..Len(period) : MinutePeriodAt(period, i) # NoMatch}, 1)

\* minute, period = minute_period.groups(), the match starting at place
\* at; without a match the token is returned as it is
AmPmGroups(number, hour, period, at) ==
    IF at = NoMatch THEN number
    ELSE AmPmWords(hour, SubSeq(period, at, at + 1),
                   SubSeq(period, MinutePeriodAt(period, at) - 2,
                          MinutePeriodAt(period, at) - 1))

\* time_part, period = number.split(':') raises unless there are two
\* parts; period then holds no colon
AmPmParts(number, parts) ==
    IF Len(parts) # 2 THEN ValueError
    ELSE Returned(AmPmGroups(number, parts[1], parts[2], MinutePeriodSearch(parts[2])))

\* The AM/PM branch of repl, taken when the sentence holds an AM/PM time
AmPmRepl(number) ==
    IF AmPmEnd(number, 1) = NoMatch THEN Returned(number)
    ELSE AmPmParts(number, split(number, ":"))

\* re.search(r'\d{1,2}:\d{2}\s*(AM|PM|am|pm)', sentence)
SearchAmPm(sentence) == \E i \in 1..Len(sentence) : AmPmEnd(sentence, i) # NoMatch

\* re.search(r'\b(room|ward|chamber|cabin)\s+\d+\b', sentence.lower())
SearchRoom(sentence_lower) ==
    \E i \in 1..Len(sentence_lower) : RoomAt(sentence_lower, i) # NoMatch

\* IsTelephone with the length off by one
IsTelephoneOffByOne(number) == Len(number) = 11 /\ isdigit(number)

\* len(number) == 10 and number.isdigit()
IsTelephone(number) == Len(number) = 10 /\ isdigit(number)

\* The branch of the short numerals never taken
IsShortNever(number) == FALSE

\* len(number) <= 3 and number.isdigit()
IsShort(number) == Len(number) <= 3 /\ isdigit(number)

\* A callback that returns each token as it is
repl_unchanged(number, sentence) == Returned(number)

\* The callback of the four numeric passes.  sentence is the variable of
\* interpret_numbers as it stands when the pass runs.
repl(number, sentence) ==
    IF IsTelephone(number) THEN Returned(SayAs("telephone", number))
    ELSE IF IsShort(number) THEN Returned(SayAs("cardinal", number))
    ELSE IF DateEnd(number, 1) # NoMatch THEN Returned(DateRepl(number))
    ELSE IF TimeEnd(number, 1) # NoMatch THEN TimeRepl(number)
    ELSE IF SearchAmPm(sentence) THEN AmPmRepl(number)
    ELSE IF SearchRoom(lower(sentence)) THEN Returned(SayAs("characters", number))
    ELSE IF Len(number) <= 4 /\ isdigit(number) THEN Returned(RoundWords(number))
    ELSE Returned(SayAs("cardinal", number))

\* The replacements handed to re.sub, as data: the template with the
\* group, the callback repl, or a literal text
RupeesTemplate == <<"rupees">>
Callback == <<"repl">>
Literal(words) == <<"literal", words>>

\* What replaces the matched text m; sentence is read by the callback only,
\* and only the callback can raise
Replacement(replacement, m, sentence) ==
    CASE replacement[1] = "rupees"  -> Returned(RupeesRepl(m))
      [] replacement[1] = "repl"    -> repl(m, sentence)
      [] replacement[1] = "literal" -> Returned(replacement[2])

\* re.sub(pattern, replacement, s).  P is MatchPositions(pattern, s).  The
\* scan goes left to right: it takes the first match at or after i, copies
\* what comes before it and resumes after it, so replaced text is never
\* scanned again by the same pass.  The callback reads s, the text the
\* pass runs on; an exception it raises ends the call.
RECURSIVE ReSubFrom(_, _, _, _, _)

\* The match from k to before j replaced, and the scan resumed at j
ReSubMatch(pattern, replacement, s, i, P, k, j) ==
    Joined(Returned(SubSeq(s, i, k - 1)),
           Replacement(replacement, SubSeq(s, k, j - 1), s),
           ReSubFrom(pattern, replacement, s, j, P))

\* k is the first match at or after i, or NoMatch
ReSubNext(pattern, replacement, s, i, P, k) ==
    IF k = NoMatch THEN Returned(SubSeq(s, i, Len(s)))
    ELSE ReSubMatch(pattern, replacement, s, i, P, k, MatchAt(pattern, s, k))

ReSubFrom(pattern, replacement, s, i, P) ==
    ReSubNext(pattern, replacement, s, i, P, First(P, i))

ReSub(pattern, replacement, s) ==
    ReSubFrom(pattern, replacement, s, 1, MatchPositions(pattern, s))

\* The currency and title rewrites that come before the numeric passes
PrePasses == <<
    <<Currency("Rs."), RupeesTemplate>>,
    <<Currency("Rs"), RupeesTemplate>>,
    <<Currency("INR"), RupeesTemplate>>,
    <<Currency("₹"), RupeesTemplate>>,
    <<Title, Literal("Doctor ")>>
>>

\* The four numeric passes, each with the callback repl
NumericPasses == <<
    <<Integer, Callback>>,
    <<Date, Callback>>,
    <<AmPm, Callback>>,
    <<Time, Callback>>
>>

\* The two literal overrides that end interpret_numbers
FixPasses == <<
    <<FixedTime("3", "00"), Literal("three PM")>>,
    <<FixedTime("2", "30"), Literal("two thirty PM")>>
>>

\* sentence = re.sub(...), statement after statement from the k-th on
RECURSIVE RunPasses(_, _, _)

\* The statements from the k-th on, after one that gave r: none of them
\* runs when it raised
RunPassesAfter(r, passes, k) ==
    IF r.raised THEN r ELSE RunPasses(r.text, passes, k)

RunPasses(sentence, passes, k) ==
    IF k > Len(passes) THEN Returned(sentence)
    ELSE RunPassesAfter(ReSub(passes[k][1], passes[k][2], sentence), passes, k + 1)

\* What the passes of a list without the callback make of the sentence:
\* a template or a literal text is put in and nothing can raise
Substituted(sentence, passes) == RunPasses(sentence, passes, 1).text

\* The sentence as the pre-pass leaves it
PrePass(sentence) == Substituted(sentence, PrePasses)

interpret_numbers(sentence) ==
    RunPasses(sentence, PrePasses \o NumericPasses \o FixPasses, 1)

-----------------------------------------------------------------------------
(* The configuration tables, written in the alphabet of the model.         *)

\* PRONUNCIATION_DICTIONARY, in insertion order (lines 30-108)
PRONUNCIATION_DICTIONARY == <<
    [word |-> "Yashodha", pronunciation |-> "j˙ˈʃoːdΪʰaː", alphabet |-> "ipa"],
    [word |-> "Yashoda", pronunciation |-> "j˙ˈʃoːdΪʰaː", alphabet |-> "ipa"],
    [word |-> "YASHODA", pronunciation |-> "j˙ˈʃoːdΪʰaː", alphabet |-> "ipa"],
    [word |-> "yashodha", pronunciation |-> "j˙ˈʃoːdΪʰaː", alphabet |-> "ipa"],
    [word |-> "yashoda", pronunciation |-> "j˙ˈʃoːdΪʰaː", alphabet |-> "ipa"],
    [word |-> "pneumonia", pronunciation |-> "nuːˈmoʊni˙", alphabet |-> "ipa"],
    [word |-> "myocardial infarction", pronunciation |-> "ma˪˙ˈkˑ˹di˙l ˪nˈfˑ˹kʃ˙n", alphabet |-> "ipa"],
    [word |-> "fever", pronunciation |-> "ˈfiːv˙r", alphabet |-> "ipa"],
    [word |-> "headache", pronunciation |-> "ˈh˛de˪k", alphabet |-> "ipa"],
    [word |-> "Chennai", pronunciation |-> "ˈtʃ˛naj", alphabet |-> "ipa"],
    [word |-> "Delhi", pronunciation |-> "ˈdΪ˛li", alphabet |-> "ipa"],
    [word |-> "Tamil", pronunciation |-> "ˈtΪˑːm˪l", alphabet |-> "ipa"],
    [word |-> "Tamil Nadu", pronunciation |-> "ˈtΪˑːm˪l ˈnˑː˖u", alphabet |-> "ipa"],
    [word |-> "Hindi", pronunciation |-> "ˈh˪ndi", alphabet |-> "ipa"],
    [word |-> "SQL", pronunciation |-> "ˈ˛s kjuː ˈ˛l", alphabet |-> "ipa"],
    [word |-> "GUID", pronunciation |-> "ˈˡuː˪d", alphabet |-> "ipa"],
    [word |-> "PostgreSQL", pronunciation |-> "ˈpoʊstˡr˛s ˈ˛s kjuː ˈ˛l", alphabet |-> "ipa"]
>>

\* TAMIL_PRONUNCIATIONS, in insertion order (lines 111-128)
TAMIL_PRONUNCIATIONS == <<
    [word |-> "காய்ச்சல்", pronunciation |-> "kaːjtːʃal", alphabet |-> "ipa"],
    [word |-> "தலைவலி", pronunciation |-> "tΪala˪vali", alphabet |-> "ipa"],
    [word |-> "மருத்துவமனைக்கு", pronunciation |-> "ma˾uθθuvamaneːkku", alphabet |-> "ipa"],
    [word |-> "யசோதா", pronunciation |-> "j˙ˈʃoːdΪʰaː", alphabet |-> "ipa"]
>>

\* HINDI_PRONUNCIATIONS, in insertion order (lines 131-144)
HINDI_PRONUNCIATIONS == <<
    [word |-> "বুখার", pronunciation |-> "buˈkʰaːr", alphabet |-> "ipa"],
    [word |-> "সিরদর্দ", pronunciation |-> "sirˈd˙rd", alphabet |-> "ipa"],
    [word |-> "যশোধা", pronunciation |-> "j˙ˈʃoːdΪʰaː", alphabet |-> "ipa"]
>>

\* urgent_keywords (lines 519-529)
urgent_keywords == <<
    "emergency", "critical", "urgent", "severe", "immediately", "call 108",
    "ambulance", "chest pain", "breathing difficulty", "unconscious",
    "bleeding", "accident", "আপাতকালীন", "তত্কাল", "আপাত", "আপাতকাল",
    "ছাতী মেং দর্দ", "সাংস লেনে মেং তকলীফ", "அவசர", "மார்பு வலி",
    "மூச்சுத்திணறல்", "ಅತ್ಯವಸರ", "ತೀವ್ರಮೈನ", "ತಕ್ಷಣ", "ಗುಂಡೆ ನೊಪ್ಪಿ",
    "ಶ್ವಾಸ ತೀಸುಕೋವಡಂಲೋ ಇಬ್ಬಂದಿ"
>>

\* empathetic_keywords (lines 531-541)
empathetic_keywords == <<
    "pain", "suffering", "worried", "concerned", "anxious", "afraid",
    "scared", "baby", "child", "pregnant", "family", "দর্দ", "পরেশান",
    "চিংতিত", "বচ্চা", "শিশু", "গর্ভ঵তী", "পরি঵ার", "வலி", "கவலை",
    "குழந்தை", "குடும்பம்", "கர்ப்பிணி", "ನೊಪ್ಪಿ", "ಬಾಧ", "ಆಂದೋಳನ",
    "ಚಿಂತಿತ", "ಬಿಡ್ಡ", "ಗರ್ಭಿಣೀ", "ಕುಟುಂಬಂ"
>>

\* informative_keywords (lines 543-553)
informative_keywords == <<
    "appointment", "schedule", "doctor", "available", "location",
    "directions", "fee", "timing", "consultation", "procedure", "test",
    "results", "registration", "অপ৉ইংটমেংট", "ড৉ক্টর", "উপলব্ধ", "স্থান",
    "শুল্ক", "সময", "পরামর্শ", "প্রক্রিযা", "পরীক্ষণ", "பதிவு",
    "மருத்துவர்", "இடம்", "கட்டணம்", "நேரம்", "ಅಪಾಯಿಂಟ್ಮೆಂಟ್", "ಡಾಕ್ಟರ್",
    "ಅಂದುಬಾಟುಲೋ", "ಪ್ರದೇಶಂ", "ರುಸುಮು", "ಸಮಯಂ", "ಸಂಪ್ರದಿಂಪು", "ಪರೀಕ್ಷ"
>>

\* greeting_keywords (lines 555-564)
greeting_keywords == <<
    "hello", "hi", "greetings", "welcome", "good morning", "good afternoon",
    "নমস্তে", "নমস্কার", "স্঵াগত", "শুভ", "வணக்கம்", "நல்வரவு", "ನಮಸ್ಕಾರಂ",
    "ಹಲೋ", "ಸ್ವಾಗತಂ", "ಶುಭೋದಯಂ"
>>

\* The keys of GoogleTTS_SSML.voice_config
voice_config == {"hindi", "english", "tamil", "telugu"}

\* The keys of the language-code table of text_to_ssml_with_emotion
lang_code_keys == {"english", "hindi", "tamil", "telugu"}

\* The language-code table of text_to_ssml_with_emotion and its default
lang_code(language) ==
    IF language = "english" THEN "en-IN"
    ELSE IF language = "hindi" THEN "hi-IN"
    ELSE IF language = "tamil" THEN "ta-IN"
    ELSE IF language = "telugu" THEN "te-IN"
    ELSE "en-IN"

-----------------------------------------------------------------------------
(* GoogleTTS_SSML.detect_emotion                                           *)

\* word.lower() for each word of a keyword list
LowerAll(keywords) == [k \in 1..Len(keywords) |-> lower(keywords[k])]

urgent_lower == LowerAll(urgent_keywords)
empathetic_lower == LowerAll(empathetic_keywords)
informative_lower == LowerAll(informative_keywords)
greeting_lower == LowerAll(greeting_keywords)

\* Some word of the list, lower-cased, is in sentence_lower
AnyKeyword(lowered, sentence_lower) ==
    \E k \in 1..Len(lowered) : Contains(sentence_lower, lowered[k])

\* The four loops with the first two in the other order
ClassifyEmpatheticFirst(sentence_lower) ==
    IF AnyKeyword(empathetic_lower, sentence_lower) THEN "empathetic"
    ELSE IF AnyKeyword(urgent_lower, sentence_lower) THEN "urgent"
    ELSE IF AnyKeyword(informative_lower, sentence_lower) THEN "informative"
    ELSE IF AnyKeyword(greeting_lower, sentence_lower) THEN "greeting"
    ELSE "professional"

\* The four loops, on the lower-cased sentence
Classify(sentence_lower) ==
    IF AnyKeyword(urgent_lower, sentence_lower) THEN "urgent"
    ELSE IF AnyKeyword(empathetic_lower, sentence_lower) THEN "empathetic"
    ELSE IF AnyKeyword(informative_lower, sentence_lower) THEN "informative"
    ELSE IF AnyKeyword(greeting_lower, sentence_lower) THEN "greeting"
    ELSE "professional"

detect_emotion(sentence) == Classify(lower(sentence))

-----------------------------------------------------------------------------
(* GoogleTTS_SSML.text_to_ssml_with_emotion                                *)

\* The three dictionaries as the module writes them when it is loaded
\* (lines 30, 111 and 131): each holds the items of its own literal
AsWritten ==
    [PRONUNCIATION_DICTIONARY |-> <<"PRONUNCIATION_DICTIONARY">>,
     TAMIL_PRONUNCIATIONS |-> <<"TAMIL_PRONUNCIATIONS">>,
     HINDI_PRONUNCIATIONS |-> <<"HINDI_PRONUNCIATIONS">>]

\* The items of each literal
Literals ==
    [PRONUNCIATION_DICTIONARY |-> PRONUNCIATION_DICTIONARY,
     TAMIL_PRONUNCIATIONS |-> TAMIL_PRONUNCIATIONS,
     HINDI_PRONUNCIATIONS |-> HINDI_PRONUNCIATIONS]

\* {**general, **lang_specific_dict}: a key of both keeps its place in the
\* first and takes the value of the second; the other keys of the second
\* follow in their order
Merged(general, lang_specific_dict) ==
    [k \in 1..Len(general) |->
        IF \E j \in 1..Len(lang_specific_dict) : lang_specific_dict[j].word = general[k].word
        THEN lang_specific_dict[CHOOSE j \in 1..Len(lang_specific_dict) :
                                    lang_specific_dict[j].word = general[k].word]
        ELSE general[k]]
    \o SelectSeq(lang_specific_dict,
                 LAMBDA item : \A k \in 1..Len(general) : general[k].word # item.word)

\* The items a dictionary holds that was filled from the literals named,
\* one after the other
RECURSIVE Items(_)
Items(names) ==
    IF names = <<>> THEN <<>>
    ELSE Merged(Items(SubSeq(names, 1, Len(names) - 1)), Literals[names[Len(names)]])

\* all_pronunciations = {**PRONUNCIATION_DICTIONARY, **lang_specific_dict},
\* built anew by each call from the dictionaries d of the module as the
\* call finds them
all_pronunciations(d, language) ==
    Merged(Items(d.PRONUNCIATION_DICTIONARY),
           IF language = "hindi" THEN Items(d.HINDI_PRONUNCIATIONS)
           ELSE IF language = "tamil" THEN Items(d.TAMIL_PRONUNCIATIONS)
           ELSE <<>>)

\* The split with its empty strings kept
SentencesUnfiltered(t) == ReSplit(SentenceBreak, strip(t))

\* sentences = [s for s in re.split(..., text.strip()) if s]
Sentences(t) == SelectSeq(ReSplit(SentenceBreak, strip(t)), LAMBDA x : x # "")

PhonemeTag(entry) ==
    "<phoneme alphabet=\"" \o entry.alphabet \o "\" ph=\"" \o entry.pronunciation
        \o "\">" \o entry.word \o "</phoneme>"

YashodaNames == {"yashoda", "yashodha", "যশোধা"}

\* One turn of the loop over all_pronunciations.items()
ApplyEntry(modified_sentence, entry, language) ==
    IF language = "english" /\ lower(entry.word) \in YashodaNames
    THEN modified_sentence
    ELSE IF Contains(modified_sentence, entry.word) /\ entry.pronunciation # ""
         THEN Substituted(modified_sentence,
                          << <<Word(entry.word), Literal(PhonemeTag(entry))>> >>)
         ELSE modified_sentence

\* The loop over the entries from the k-th on: the first half of them,
\* then the rest; no word of a dictionary is empty, so that no turn
\* changes an empty sentence
RECURSIVE ApplyPronunciations(_, _, _, _)
ApplyPronunciations(sentence, entries, k, language) ==
    IF sentence = "" \/ k > Len(entries) THEN sentence
    ELSE IF k = Len(entries) THEN ApplyEntry(sentence, entries[k], language)
    ELSE ApplyPronunciations(
            ApplyPronunciations(sentence, SubSeq(entries, 1, (k + Len(entries)) \div 2), k, language),
            entries, (k + Len(entries)) \div 2 + 1, language)

Prosody(attributes, body) == "<prosody " \o attributes \o ">" \o body \o "</prosody>"

\* The template of each tone
ApplyTone(tone, modified_sentence) ==
    IF tone = "urgent"
    THEN "<emphasis level=\"strong\">"
            \o Prosody("rate=\"110%\" pitch=\"+5%\" volume=\"loud\"", modified_sentence)
            \o "</emphasis>"
    ELSE IF tone = "empathetic"
    THEN Prosody("rate=\"90%\" pitch=\"-5%\" volume=\"medium\"", modified_sentence)
    ELSE IF tone = "informative"
    THEN Prosody("rate=\"95%\" pitch=\"0%\" volume=\"medium\"", modified_sentence)
    ELSE IF tone = "greeting"
    THEN Prosody("rate=\"medium\" pitch=\"5%\" volume=\"medium\"", modified_sentence)
    ELSE Prosody("rate=\"medium\" pitch=\"0%\"", modified_sentence)

\* The loop over all_pronunciations.items() on what interpret_numbers
\* returned
Pronounced(sentence_with_numbers, language, d) ==
    ApplyPronunciations(sentence_with_numbers, all_pronunciations(d, language), 1, language)

\* The template of the tone around modified_sentence
Toned(tone, modified_sentence) == Returned(ApplyTone(tone, modified_sentence))

\* The turn of the loop after interpret_numbers, with the tone taken from
\* the normalized sentence
SsmlSentenceOfNormalized(r, language, d) ==
    IF r.raised THEN r
    ELSE Toned(detect_emotion(Pronounced(r.text, language, d)), Pronounced(r.text, language, d))

\* The body of the loop with the tone taken from the normalized sentence
SsmlSentenceToneOfNormalized(sentence, language, d) ==
    SsmlSentenceOfNormalized(interpret_numbers(sentence), language, d)

\* The turn of the loop after interpret_numbers gave r: when it raised the
\* call ends there; on the text it returned the entries are applied, and
\* the template of the tone of the sentence as it came is put around that
SsmlSentenceAfter(sentence, r, language, d) ==
    IF r.raised THEN r
    ELSE Toned(detect_emotion(sentence), Pronounced(r.text, language, d))

\* The body of the loop over the sentences
SsmlSentence(sentence, language, d) ==
    SsmlSentenceAfter(sentence, interpret_numbers(sentence), language, d)

BreakTag(break_time) == "<break time=\"" \o break_time \o "\"/>"

\* The wrapped sentences with the pause marker after each of them
RECURSIVE SsmlBodyBreakAfterEach(_, _, _, _, _)
SsmlBodyBreakAfterEach(sentences, k, language, break_time, d) ==
    IF k > Len(sentences) THEN Returned("")
    ELSE Joined(SsmlSentence(sentences[k], language, d),
                Returned(BreakTag(break_time)),
                SsmlBodyBreakAfterEach(sentences, k + 1, language, break_time, d))

\* break_tag.join(ssml_sentences), over the sentences from the k-th on
RECURSIVE SsmlBody(_, _, _, _, _)
SsmlBody(sentences, k, language, break_time, d) ==
    IF k > Len(sentences) THEN Returned("")
    ELSE Joined(SsmlSentence(sentences[k], language, d),
                Returned(IF k = Len(sentences) THEN "" ELSE BreakTag(break_time)),
                SsmlBody(sentences, k + 1, language, break_time, d))

\* The root wrapper with the language code around the body
Document(ssml_body, code) ==
    "<speak xml:lang=\"" \o code \o "\">\n  " \o ssml_body \o "\n</speak>"

\* After the loop over the sentences gave r: the document around the body
\* it returned, unless a turn of it raised
DocumentAfter(r, code) == IF r.raised THEN r ELSE Returned(Document(r.text, code))

\* What the call gives: a text with <speak> in it comes back as it is or in
\* a bare root; any other text is taken sentence by sentence, and the call
\* raises when interpret_numbers raises on one of them
text_to_ssml_with_emotion(t, break_time, language, d) ==
    IF Contains(t, "<speak>")
    THEN Returned(IF ~StartsWithAt(t, 1, "<speak>") THEN "<speak>" \o t \o "</speak>" ELSE t)
    ELSE DocumentAfter(SsmlBody(Sentences(t), 1, language, break_time, d), lang_code(language))

-----------------------------------------------------------------------------
(* GoogleTTS_SSML.synthesize                                               *)

\* The respelling of Yashoda alone
YashodaPassesOne ==
    << <<Word("Yashoda"), Literal("ya-show-da")>> >>

\* The three substitutions for the language english: \bYashoda\b and
\* \bYashodha\b under re.IGNORECASE, \bYASHODA\b as it is written
YashodaPasses ==
    << <<Word("Yashoda"), Literal("ya-show-da")>>,
       << <<"exact word", "YASHODA">>, Literal("ya-show-da")>>,
       <<Word("Yashodha"), Literal("ya-show-da")>> >>

\* ssml_text, the document synthesize hands to the client: none ("") for
\* a text that is empty or white space, for which it returns at once
synthesize(t, language, d) ==
    IF strip(t) = "" THEN Returned("")
    ELSE text_to_ssml_with_emotion(
            IF language = "english" THEN Substituted(t, YashodaPasses) ELSE t,
            "350ms", language, d)

-----------------------------------------------------------------------------
(* The engine as a state machine: a caller sets the language, hands the    *)
(* engine a text and runs one of its operations on it.                     *)

\* The longest text, in pieces, that a request is built from
MaxPieces == 2

\* What the texts handed to the whole engine are built from
Pieces == {" ", ". ", "Dr. ", "Rao", "9876543210", "<speak>", "</speak>"}

\* Whole texts handed to the engine
Scenarios == {
    "Dr. Rao: বুখার",
    "Your appointment is at 3:00 PM with Dr. Rao. Room 204 is ready.",
    "Call 9876543210 before 4:15 pm. Room 12345 is ready!",
    "Please see Dr. Rao in Chennai <speak>today</speak>"
}

\* What the sentences handed to interpret_numbers are built from
NumberPieces == {
    " ", ". ", "x", "Dr. ", "Rao", "Room ", "ward ", "CABIN ", "chamber ",
    "Rs. ", "Rs", "INR ",
    "500", "100", "200", "1000", "204", "7", "12345", "9876543210",
    "01/02/1960", "1/2/60", "3:00 PM", "2:30 PM", "4:15 pm", "PM",
    "5:00", "6:30", "7:45"
}

\* Whole sentences handed to interpret_numbers
NumberScenarios == {
    "Your appointment is at 3:00 PM with Dr. Rao.",
    "Room 204 is ready.",
    "Pay Rs. 500 or ₹1000 on 01/02/1960 at 5:00, ward 12345",
    "x3:00PM and x2 30 pm",
    "Bring 2500 at 4:15 pm",
    "Room 204 is ready, bring 2500"
}

\* The language names a caller passes to set_language
LanguageNames == voice_config \cup {"kannada", ""}

\* The pause durations: the default of text_to_ssml_with_emotion and that
\* of text_to_ssml
BreakTimes == {"350ms", "200ms"}

\* The threads that call one engine at a time
Threads == {1, 2}

\* No call under way.  A call keeps its arguments text and break_time, the
\* language whose dictionary it took (lang_specific_dict), the number k of
\* the sentence its loop is at, the number of the entry the loop over
\* all_pronunciations is at, modified_sentence, the ssml_sentences joined
\* so far, the document it returned and whether it raised instead; read
\* holds the values self.current_language had when the call read it.  A synthesize keeps
\* the key of voice_config its request takes the voice from and, for
\* GoogleTTS, the voice_name it read ("None" leaves the name of the
\* configuration in the request).
Idle ==
    [pc |-> "idle", text |-> "", break_time |-> "", dictionary |-> "none",
     k |-> 0, entry |-> 0, modified_sentence |-> "", body |-> "",
     document |-> "", raised |-> FALSE, read |-> {}, voice |-> "none",
     voice_name |-> "none"]

\* The positions of a call that has not returned: text_to_ssml_with_emotion
\* called on its own, a synthesize before the reply to its first request,
\* and before the reply to the request it sends again after an
\* authentication error
UnderWay == {
    "text_to_ssml_with_emotion under way",
    "synthesize under way", "synthesize: retry",
    "GoogleTTS.synthesize under way", "GoogleTTS.synthesize: retry"
}

\* The caller gets what the operation gives: its text, or its exception
Gives(r) ==
    /\ result' = r.text
    /\ raised' = r.raised

\* The constructor makes english the language, as a caller supplying it would
Init ==
    /\ current_language = "english"
    /\ supplied = "english"
    /\ text = ""
    /\ typed = 0
    /\ op = "none"
    /\ result = ""
    /\ raised = FALSE
    /\ pause = ""
    /\ call = [thread \in Threads |-> Idle]
    /\ google = [current_language |-> "english", voice_name |-> "None"]
    /\ audio = "none"
    /\ dictionaries = AsWritten

\* The caller extends the text of the request
Type(piece) ==
    /\ op = "none"
    /\ typed < MaxPieces
    /\ text' = text \o piece
    /\ typed' = typed + 1
    /\ UNCHANGED <<current_language, supplied, op, result, raised, pause, call, google, audio,
                   dictionaries>>

\* The caller hands in a whole text
Scenario(t) ==
    /\ op = "none"
    /\ typed = 0
    /\ text' = t
    /\ typed' = MaxPieces
    /\ UNCHANGED <<current_language, supplied, op, result, raised, pause, call, google, audio,
                   dictionaries>>

\* set_language without its test of the name
set_language_unchecked(lang) ==
    /\ op \in {"none"} \cup UnderWay
    /\ current_language' = lang
    /\ supplied' = lang
    /\ UNCHANGED <<text, typed, op, result, raised, pause, call, google, audio, dictionaries>>

\* GoogleTTS_SSML.set_language, which another thread may call while a
\* synthesize is under way
set_language(lang) ==
    /\ op \in {"none"} \cup UnderWay
    /\ current_language' = IF lang \in voice_config THEN lang ELSE current_language
    /\ supplied' = lang
    /\ UNCHANGED <<text, typed, op, result, raised, pause, call, google, audio, dictionaries>>

\* A call of interpret_numbers(text)
InterpretNumbers ==
    /\ op = "none"
    /\ op' = "interpret_numbers"
    /\ Gives(interpret_numbers(text))
    /\ UNCHANGED <<current_language, supplied, text, typed, pause, call, google, audio,
                   dictionaries>>

\* A call of detect_emotion(text)
DetectEmotion ==
    /\ op = "none"
    /\ op' = "detect_emotion"
    /\ Gives(Returned(detect_emotion(text)))
    /\ UNCHANGED <<current_language, supplied, text, typed, pause, call, google, audio,
                   dictionaries>>

\* A call of text_to_ssml_with_emotion that also sets the language back
AssembleResetting(break_time) ==
    /\ op = "none"
    /\ op' = "text_to_ssml_with_emotion"
    /\ pause' = break_time
    /\ Gives(text_to_ssml_with_emotion(text, break_time, current_language, dictionaries))
    /\ current_language' = "english"
    /\ UNCHANGED <<supplied, text, typed, call, google, audio, dictionaries>>

\* A call of text_to_ssml_with_emotion that puts the items of the language
\* into the general dictionary itself: PRONUNCIATION_DICTIONARY.update(...)
AssembleMerging(break_time) ==
    /\ op = "none"
    /\ op' = "text_to_ssml_with_emotion"
    /\ pause' = break_time
    /\ Gives(text_to_ssml_with_emotion(text, break_time, current_language, dictionaries))
    /\ dictionaries' =
            [dictionaries EXCEPT !.PRONUNCIATION_DICTIONARY =
                IF current_language = "hindi" THEN Append(@, "HINDI_PRONUNCIATIONS")
                ELSE IF current_language = "tamil" THEN Append(@, "TAMIL_PRONUNCIATIONS")
                ELSE @]
    /\ UNCHANGED <<current_language, supplied, text, typed, call, google, audio>>

\* A call of text_to_ssml_with_emotion(text, break_time)
Assemble(break_time) ==
    /\ op = "none"
    /\ op' = "text_to_ssml_with_emotion"
    /\ pause' = break_time
    /\ Gives(text_to_ssml_with_emotion(text, break_time, current_language, dictionaries))
    /\ UNCHANGED <<current_language, supplied, text, typed, call, google, audio, dictionaries>>

\* The caller takes the result; the next request starts
NewRequest ==
    /\ op \notin {"none"} \cup UnderWay
    /\ text' = ""
    /\ typed' = 0
    /\ op' = "none"
    /\ Gives(Returned(""))
    /\ pause' = ""
    /\ audio' = "none"
    /\ call' = [call EXCEPT ![1] = Idle]
    /\ UNCHANGED <<current_language, supplied, google, dictionaries>>

Next ==
    \/ \E piece \in Pieces : Type(piece)
    \/ \E t \in Scenarios : Scenario(t)
    \/ \E lang \in LanguageNames : set_language(lang)
    \/ InterpretNumbers
    \/ DetectEmotion
    \/ \E break_time \in BreakTimes : Assemble(break_time)
    \/ NewRequest

Spec == Init /\ [][Next]_vars

\* The engine as its number normalizer alone, on sentences of its own
NextNumbers ==
    \/ \E piece \in NumberPieces : Type(piece)
    \/ \E t \in NumberScenarios : Scenario(t)
    \/ InterpretNumbers
    \/ NewRequest

SpecNumbers == Init /\ [][NextNumbers]_vars

\* What the sentences with amounts of money are built from: the four
\* currency forms of the pre-pass, numerals in ASCII and in Devanagari
\* digits, and what may stand around them
CurrencyPieces == {" ", "\r", "x", "Rs. ", "Rs", "INR ", "₹", "500", "204", "1000", "৫০০"}

\* The number normalizer on sentences with amounts of money
NextCurrency ==
    \/ \E piece \in CurrencyPieces : Type(piece)
    \/ InterpretNumbers
    \/ NewRequest

SpecCurrency == Init /\ [][NextCurrency]_vars

\* What the sentences with dates and times of day are built from: whole
\* dates and times, the fragments they are made of, and numerals that only
\* look like a part of one
PassPieces == {
    " ", "x", "12/", "1/", "60", "1960", "5:", ":30", "30", " pm", "PM",
    "01/02/1960", " at 5:00", "4:15 pm", "12345"
}

\* The number normalizer on sentences with dates and times of day
NextPasses ==
    \/ \E piece \in PassPieces : Type(piece)
    \/ InterpretNumbers
    \/ NewRequest

SpecPasses == Init /\ [][NextPasses]_vars

\* What the sentences handed to detect_emotion are built from: keywords of
\* each tone, in either case, inside other words and next to what
\* interpret_numbers rewrites
TonePieces == {
    " ", ". ", "emergency", "Chest Pain", "worried", "appointment", "Hello",
    "this", "Call 108", "Dr. ", "নমস্তে"
}

\* The engine on sentences of every tone
NextTone ==
    \/ \E piece \in TonePieces : Type(piece)
    \/ \E lang \in {"english", "hindi"} : set_language(lang)
    \/ DetectEmotion
    \/ \E break_time \in BreakTimes : Assemble(break_time)
    \/ NewRequest

SpecTone == Init /\ [][NextTone]_vars

\* What the texts with dictionary words are built from: the three words of
\* HINDI_PRONUNCIATIONS, two of PRONUNCIATION_DICTIONARY and what stands
\* between words
WordPieces == {" ", "x", ".", "বুখার", "সিরদর্দ", "যশোধা", "Yashoda", "Chennai"}

\* The engine on texts with dictionary words, in each language
NextWords ==
    \/ \E piece \in WordPieces : Type(piece)
    \/ \E lang \in voice_config : set_language(lang)
    \/ \E break_time \in BreakTimes : Assemble(break_time)
    \/ NewRequest

SpecWords == Init /\ [][NextWords]_vars

\* What the texts with markup of their own are built from: the root tags,
\* bare and with the attribute the engine writes, and what the stages of
\* the assembler act on
WrapperPieces == {
    "<speak>", "</speak>", "<speak xml:lang=\"en-IN\">", "x", ". ", "7",
    "Chennai"
}

\* The caller hands the document it got back to the engine as the text of
\* the next request, once: a document with the engine's root is not
\* handed back again
Resubmit ==
    /\ op = "text_to_ssml_with_emotion"
    /\ ~raised
    /\ ~Contains(text, "<speak ")
    /\ text' = result
    /\ typed' = MaxPieces
    /\ op' = "none"
    /\ Gives(Returned(""))
    /\ pause' = ""
    /\ UNCHANGED <<current_language, supplied, call, google, audio, dictionaries>>

\* The engine on texts with markup of their own
NextWrapped ==
    \/ \E piece \in WrapperPieces : Type(piece)
    \/ \E break_time \in BreakTimes : Assemble(break_time)
    \/ Resubmit
    \/ NewRequest

SpecWrapped == Init /\ [][NextWrapped]_vars

\* What the texts with terms of PRONUNCIATION_DICTIONARY are built from:
\* terms in the letter case of their entry and in another, a term that
\* starts a longer one, case variants that are entries of their own, and
\* what makes a term part of a longer word
TermPieces == {
    " ", "x", "Chennai", "CHENNAI", "fever", "Fever", "Tamil", "Tamil Nadu",
    "Yashoda", "YASHODA"
}

\* Whole texts with terms of the dictionary
TermScenarios == {
    "Yashoda (YASHODA_HYD)",
    "Flights to CHENNAI and Chennai in Tamil Nadu"
}

\* The engine on texts with terms of the general dictionary, in each language
NextTerms ==
    \/ \E piece \in TermPieces : Type(piece)
    \/ \E t \in TermScenarios : Scenario(t)
    \/ \E lang \in voice_config : set_language(lang)
    \/ \E break_time \in BreakTimes : Assemble(break_time)
    \/ NewRequest

SpecTerms == Init /\ [][NextTerms]_vars

\* The texts of the calls that run side by side: one sentence with the
\* name in two of the spellings the general dictionary has entries for,
\* and a word of the Hindi dictionary
ConcurrentTexts == {"Yashoda yashoda বুখার"}

\* A thread calls text_to_ssml_with_emotion(t, break_time)
Begin(thread, t, break_time) ==
    /\ call[thread].pc = "idle"
    /\ call' = [call EXCEPT ![thread] =
                    [Idle EXCEPT !.pc = "if_hindi", !.text = t, !.break_time = break_time, !.k = 1]]
    /\ UNCHANGED <<current_language, supplied, text, typed, op, result, raised, pause, google,
                   audio, dictionaries>>

\* With lang_specific_dict chosen, all_pronunciations is built; then a text
\* that holds <speak> is returned, inside a wrapper unless it starts with
\* one, and for any other text the loop over the sentences starts
Chosen(frame, dictionary) ==
    IF Contains(frame.text, "<speak>")
    THEN [frame EXCEPT !.pc = "done", !.dictionary = dictionary,
                       !.document = IF StartsWithAt(frame.text, 1, "<speak>")
                                    THEN frame.text
                                    ELSE "<speak>" \o frame.text \o "</speak>"]
    ELSE [frame EXCEPT !.pc = "loop", !.dictionary = dictionary]

\* if self.current_language == 'hindi': lang_specific_dict = HINDI_PRONUNCIATIONS
ReadHindi(thread) ==
    /\ call[thread].pc = "if_hindi"
    /\ call' = [call EXCEPT ![thread] =
                    IF current_language = "hindi"
                    THEN Chosen([call[thread] EXCEPT
                                    !.read = call[thread].read \cup {current_language}], "hindi")
                    ELSE [call[thread] EXCEPT
                                    !.pc = "elif_tamil",
                                    !.read = call[thread].read \cup {current_language}]]
    /\ UNCHANGED <<current_language, supplied, text, typed, op, result, raised, pause, google,
                   audio, dictionaries>>

\* elif self.current_language == 'tamil': lang_specific_dict = TAMIL_PRONUNCIATIONS
ReadTamil(thread) ==
    /\ call[thread].pc = "elif_tamil"
    /\ call' = [call EXCEPT ![thread] =
                    Chosen([call[thread] EXCEPT
                               !.read = call[thread].read \cup {current_language}],
                           IF current_language = "tamil" THEN "tamil" ELSE "none")]
    /\ UNCHANGED <<current_language, supplied, text, typed, op, result, raised, pause, google,
                   audio, dictionaries>>

\* The start of one turn of the loop over the sentences:
\* sentence_with_numbers = self.interpret_numbers(sentence), whose
\* exception ends the call, and modified_sentence = sentence_with_numbers
Sentence(thread) ==
    /\ call[thread].pc = "loop"
    /\ call[thread].k <= Len(Sentences(call[thread].text))
    /\ call' = [call EXCEPT ![thread] =
                    IF interpret_numbers(Sentences(call[thread].text)[call[thread].k]).raised
                    THEN [@ EXCEPT !.pc = "done", !.raised = TRUE]
                    ELSE [@ EXCEPT !.pc = "entries", !.entry = 1,
                                   !.modified_sentence =
                                        interpret_numbers(Sentences(call[thread].text)[call[thread].k]).text]]
    /\ UNCHANGED <<current_language, supplied, text, typed, op, result, raised, pause, google,
                   audio, dictionaries>>

\* One turn of the loop over all_pronunciations.items(): the language is
\* read for the Yashoda skip of this entry
Entry(thread) ==
    /\ call[thread].pc = "entries"
    /\ call[thread].entry <= Len(all_pronunciations(dictionaries, call[thread].dictionary))
    /\ call' = [call EXCEPT ![thread] =
                    [@ EXCEPT !.entry = @ + 1,
                              !.read = @ \cup {current_language},
                              !.modified_sentence =
                                   ApplyEntry(call[thread].modified_sentence,
                                              all_pronunciations(dictionaries, call[thread].dictionary)[call[thread].entry],
                                              current_language)]]
    /\ UNCHANGED <<current_language, supplied, text, typed, op, result, raised, pause, google,
                   audio, dictionaries>>

\* The end of one turn of the loop over the sentences: the template of the
\* tone of the sentence goes around modified_sentence, and the result is
\* appended to ssml_sentences
Wrap(thread) ==
    /\ call[thread].pc = "entries"
    /\ call[thread].entry > Len(all_pronunciations(dictionaries, call[thread].dictionary))
    /\ call' = [call EXCEPT ![thread] =
                    [@ EXCEPT !.pc = "loop",
                              !.k = @ + 1,
                              !.body = call[thread].body
                                         \o (IF call[thread].k = 1 THEN ""
                                             ELSE BreakTag(call[thread].break_time))
                                         \o ApplyTone(
                                               detect_emotion(Sentences(call[thread].text)[call[thread].k]),
                                               call[thread].modified_sentence)]]
    /\ UNCHANGED <<current_language, supplied, text, typed, op, result, raised, pause, google,
                   audio, dictionaries>>

\* After the loop: the language code is read and the document returned
Finish(thread) ==
    /\ call[thread].pc = "loop"
    /\ call[thread].k > Len(Sentences(call[thread].text))
    /\ call' = [call EXCEPT ![thread] =
                    [@ EXCEPT !.pc = "done",
                              !.read = @ \cup {current_language},
                              !.document = Document(call[thread].body, lang_code(current_language))]]
    /\ UNCHANGED <<current_language, supplied, text, typed, op, result, raised, pause, google,
                   audio, dictionaries>>

\* The caller of the thread takes the document
Return(thread) ==
    /\ call[thread].pc = "done"
    /\ call' = [call EXCEPT ![thread] = Idle]
    /\ UNCHANGED <<current_language, supplied, text, typed, op, result, raised, pause, google,
                   audio, dictionaries>>

\* The threads call one engine, with set_language between their steps
NextConcurrent ==
    \/ \E lang \in {"english", "hindi"} : set_language(lang)
    \/ \E thread \in Threads, t \in ConcurrentTexts, break_time \in {"350ms"} :
            Begin(thread, t, break_time)
    \/ \E thread \in Threads : ReadHindi(thread)
    \/ \E thread \in Threads : ReadTamil(thread)
    \/ \E thread \in Threads : Sentence(thread)
    \/ \E thread \in Threads : Entry(thread)
    \/ \E thread \in Threads : Wrap(thread)
    \/ \E thread \in Threads : Finish(thread)
    \/ \E thread \in Threads : Return(thread)

SpecConcurrent == Init /\ [][NextConcurrent]_vars

\* What the client and the constructor do when a first request is
\* answered: the request returns audio; it raises an error that is not
\* about authentication; it raises an authentication error, and then
\* self.__init__() runs and the request is sent again, or the constructor
\* raises before it sets the language
ClientOutcomes == {"audio", "error", "authentication", "authentication, constructor raises"}

\* text_to_ssml_with_emotion(text, break_time) is called on its own, by
\* thread 1
AssembleCall(break_time) ==
    /\ op = "none"
    /\ call[1].pc = "idle"
    /\ op' = "text_to_ssml_with_emotion under way"
    /\ pause' = break_time
    /\ call' = [call EXCEPT ![1] =
                    [Idle EXCEPT !.pc = "if_hindi", !.text = text, !.break_time = break_time, !.k = 1]]
    /\ UNCHANGED <<current_language, supplied, text, typed, result, raised, google, audio,
                   dictionaries>>

\* The call made on its own returns its document, or raises
AssembleReturn ==
    /\ op = "text_to_ssml_with_emotion under way"
    /\ call[1].pc = "done"
    /\ op' = "text_to_ssml_with_emotion"
    /\ Gives([raised |-> call[1].raised, text |-> call[1].document])
    /\ call' = [call EXCEPT ![1] = [@ EXCEPT !.pc = "returned"]]
    /\ UNCHANGED <<current_language, supplied, text, typed, pause, google, audio, dictionaries>>

\* GoogleTTS_SSML.synthesize(text) is called, by thread 1.  A text that is
\* empty or white space returns at once; else the language is read for the
\* respelling of Yashoda
Synthesize ==
    /\ op = "none"
    /\ call[1].pc = "idle"
    /\ IF strip(text) = ""
       THEN /\ op' = "synthesize"
            /\ audio' = "empty"
            /\ UNCHANGED <<pause, call>>
       ELSE /\ op' = "synthesize under way"
            /\ pause' = "350ms"
            /\ call' = [call EXCEPT ![1] =
                            [Idle EXCEPT !.pc = "voice_config",
                                         !.text = IF current_language = "english"
                                                  THEN Substituted(text, YashodaPasses)
                                                  ELSE text,
                                         !.break_time = "350ms",
                                         !.read = {current_language}]]
            /\ UNCHANGED audio
    /\ UNCHANGED <<current_language, supplied, text, typed, result, raised, google, dictionaries>>

\* voice_config = self.voice_config.get(self.current_language, ...): the
\* language is read a second time, for the voice of the request, and
\* text_to_ssml_with_emotion is called with the text as respelled
ReadVoiceConfig ==
    /\ call[1].pc = "voice_config"
    /\ call' = [call EXCEPT ![1] =
                    [@ EXCEPT !.pc = "if_hindi", !.k = 1,
                              !.voice = current_language,
                              !.read = @ \cup {current_language}]]
    /\ UNCHANGED <<current_language, supplied, text, typed, op, result, raised, pause, google,
                   audio, dictionaries>>

\* The reply to the first request of synthesize, sent when
\* text_to_ssml_with_emotion returned ssml_text; had that call raised,
\* no request was sent.  After an authentication error self.__init__()
\* runs, which sets current_language to english unless it raises before,
\* and the request is sent again as it was built.
SynthesizeReply(outcome) ==
    /\ op = "synthesize under way"
    /\ call[1].pc = "done"
    /\ Gives([raised |-> call[1].raised, text |-> call[1].document])
    /\ call' = [call EXCEPT ![1] = [@ EXCEPT !.pc = "returned"]]
    /\ IF call[1].raised \/ outcome \in {"error", "authentication, constructor raises"}
       THEN op' = "synthesize" /\ audio' = "empty" /\ UNCHANGED current_language
       ELSE IF outcome = "audio"
       THEN op' = "synthesize" /\ audio' = "audio" /\ UNCHANGED current_language
       ELSE op' = "synthesize: retry" /\ current_language' = "english" /\ UNCHANGED audio
    /\ UNCHANGED <<supplied, text, typed, pause, google, dictionaries>>

\* The reply to the request sent again: audio, or an error, for which
\* synthesize returns b""
SynthesizeRetryReply(outcome) ==
    /\ op = "synthesize: retry"
    /\ op' = "synthesize"
    /\ audio' = IF outcome = "audio" THEN "audio" ELSE "empty"
    /\ UNCHANGED <<current_language, supplied, text, typed, result, raised, pause, call,
                   google, dictionaries>>

\* GoogleTTS.set_language; its voice_config has the keys of the other's
GoogleTTS_set_language(lang) ==
    /\ op \in {"none"} \cup UnderWay
    /\ google' = [google EXCEPT !.current_language =
                        IF lang \in voice_config THEN lang ELSE google.current_language]
    /\ UNCHANGED <<current_language, supplied, text, typed, op, result, raised, pause, call,
                   audio, dictionaries>>

\* GoogleTTS.set_voice_name
set_voice_name(voice_name) ==
    /\ op \in {"none"} \cup UnderWay
    /\ google' = [google EXCEPT !.voice_name = voice_name]
    /\ UNCHANGED <<current_language, supplied, text, typed, op, result, raised, pause, call,
                   audio, dictionaries>>

\* GoogleTTS.synthesize(text) is called, by thread 1, text being the
\* ssml_text: a text that is empty or white space returns at once, else
\* the language is read for the voice of the request
GoogleTTS_synthesize ==
    /\ op = "none"
    /\ call[1].pc = "idle"
    /\ IF strip(text) = ""
       THEN op' = "GoogleTTS.synthesize" /\ audio' = "empty" /\ UNCHANGED <<result, raised, call>>
       ELSE /\ op' = "GoogleTTS.synthesize under way"
            /\ Gives(Returned(text))
            /\ call' = [call EXCEPT ![1] =
                            [Idle EXCEPT !.pc = "voice_name", !.text = text,
                                         !.voice = google.current_language,
                                         !.read = {google.current_language}]]
            /\ UNCHANGED audio
    /\ UNCHANGED <<current_language, supplied, text, typed, pause, google, dictionaries>>

\* name=self.voice_name or voice_config['name']: the voice name is read,
\* and the request is sent
ReadVoiceName ==
    /\ call[1].pc = "voice_name"
    /\ call' = [call EXCEPT ![1] = [@ EXCEPT !.pc = "done", !.voice_name = google.voice_name]]
    /\ UNCHANGED <<current_language, supplied, text, typed, op, result, raised, pause, google,
                   audio, dictionaries>>

\* The reply to the first request of GoogleTTS.synthesize.  After an
\* authentication error self.__init__() runs, which sets current_language
\* to english and voice_name to None unless it raises before, and the
\* request is sent again as it was built.
GoogleTTS_synthesize_reply(outcome) ==
    /\ op = "GoogleTTS.synthesize under way"
    /\ call[1].pc = "done"
    /\ IF outcome \in {"error", "authentication, constructor raises"}
       THEN op' = "GoogleTTS.synthesize" /\ audio' = "empty" /\ UNCHANGED google
       ELSE IF outcome = "audio"
       THEN op' = "GoogleTTS.synthesize" /\ audio' = "audio" /\ UNCHANGED google
       ELSE /\ op' = "GoogleTTS.synthesize: retry"
            /\ google' = [current_language |-> "english", voice_name |-> "None"]
            /\ UNCHANGED audio
    /\ UNCHANGED <<current_language, supplied, text, typed, result, raised, pause, call,
                   dictionaries>>

\* The reply to the request GoogleTTS.synthesize sent again
GoogleTTS_synthesize_retry_reply(outcome) ==
    /\ op = "GoogleTTS.synthesize: retry"
    /\ op' = "GoogleTTS.synthesize"
    /\ audio' = IF outcome = "audio" THEN "audio" ELSE "empty"
    /\ UNCHANGED <<current_language, supplied, text, typed, result, raised, pause, call,
                   google, dictionaries>>

\* What the texts handed to synthesize are built from
SynthPieces == {" ", "Yashoda", "YASHODA", "yashodha", " Chennai"}

\* GoogleTTS_SSML with its synthesize and its text_to_ssml_with_emotion
\* called by one thread while others set its language
NextSynth ==
    \/ \E piece \in SynthPieces : Type(piece)
    \/ \E lang \in {"english", "hindi"} : set_language(lang)
    \/ \E break_time \in {"350ms"} : AssembleCall(break_time)
    \/ AssembleReturn
    \/ Synthesize
    \/ ReadVoiceConfig
    \/ ReadHindi(1)
    \/ ReadTamil(1)
    \/ Sentence(1)
    \/ Entry(1)
    \/ Wrap(1)
    \/ Finish(1)
    \/ \E outcome \in ClientOutcomes : SynthesizeReply(outcome)
    \/ \E outcome \in {"audio", "error"} : SynthesizeRetryReply(outcome)
    \/ NewRequest

SpecSynth == Init /\ [][NextSynth]_vars

\* GoogleTTS with its synthesize called by one thread, on documents and
\* on white space, while others set its language and its voice name
NextGoogle ==
    \/ \E piece \in {" ", "<speak>", "x", "</speak>"} : Type(piece)
    \/ \E lang \in {"hindi", "tamil", "kannada"} : GoogleTTS_set_language(lang)
    \/ \E voice_name \in {"hi-IN-Wavenet-A", "ta-IN-Wavenet-B"} : set_voice_name(voice_name)
    \/ GoogleTTS_synthesize
    \/ ReadVoiceName
    \/ \E outcome \in ClientOutcomes : GoogleTTS_synthesize_reply(outcome)
    \/ \E outcome \in {"audio", "error"} : GoogleTTS_synthesize_retry_reply(outcome)
    \/ NewRequest

SpecGoogle == Init /\ [][NextGoogle]_vars

-----------------------------------------------------------------------------
(* What the claims speak of                                                *)

NumbersDone == op = "interpret_numbers"
SsmlDone == op = "text_to_ssml_with_emotion"

\* The number of places of r where lit stands
Count(r, lit) == Cardinality({i \in 1..Len(r) : StartsWithAt(r, i, lit)})

EndsWith(r, lit) == StartsWithAt(r, Len(r) - Len(lit) + 1, lit)

\* The text holds a root wrapper of its own
Wrapped(t) == Contains(t, "<speak>")

\* The places of t where a bare numeral (one between word boundaries) starts
Numerals(t) == {i \in 1..Len(t) : IntegerAt(t, i) # NoMatch}
NumeralAt(t, i) == SubSeq(t, i, IntegerAt(t, i) - 1)

\* The bare numerals of t of ten digits
Telephones(t) == {i \in Numerals(t) : Len(NumeralAt(t, i)) = 10}

LanguageCodes == {"en-IN", "hi-IN", "ta-IN", "te-IN"}

\* r is one root element <speak xml:lang="..."> ... </speak> with one
\* xml:lang attribute, of the closed range
OneRoot(r) ==
    /\ \E code \in LanguageCodes : StartsWithAt(r, 1, "<speak xml:lang=\"" \o code \o "\">")
    /\ EndsWith(r, "</speak>")
    /\ Count(r, "<speak") = 1
    /\ Count(r, "</speak>") = 1
    /\ Count(r, "xml:lang") = 1

-----------------------------------------------------------------------------
\* C1: every document the assembler returns, for any text and any active
\* language, is one root <speak> element with exactly one xml:lang
\* attribute, whose value is en-IN, hi-IN, ta-IN or te-IN.
C1_OneRootOneLang == SsmlDone => OneRoot(result)

EndToEndText == "Your appointment is at 3:00 PM with Dr. Rao. Room 204 is ready."

InformativeOpen == "<prosody rate=\"95%\" pitch=\"0%\" volume=\"medium\">"

\* C2: the end-to-end text, with language english, gives one root wrapper
\* with xml:lang="en-IN" whose body is wrapped in the Informative template
\* and holds "three PM", "Doctor Rao" and a character-spelled span of 204.
C2_EndToEnd ==
    (SsmlDone /\ text = EndToEndText /\ current_language = "english") =>
        /\ OneRoot(result)
        /\ StartsWithAt(result, 1, "<speak xml:lang=\"en-IN\">\n  " \o InformativeOpen)
        /\ EndsWith(result, "</prosody>\n</speak>")
        /\ Count(result, "<prosody") = 1
        /\ Contains(result, "three PM")
        /\ Contains(result, "Doctor Rao")
        /\ Contains(result, SayAs("characters", "204"))

\* The telephone span of the one ten-digit numeral of the text is in r
TelephoneSpanIn(r) ==
    \A i \in Telephones(text) : Contains(r, SayAs("telephone", NumeralAt(text, i)))

\* C3 as stated: for a sentence with exactly one bare 10-digit numeral, the
\* output of interpret_numbers, and the assembled document, hold a telephone
\* say-as span of exactly that numeral.
C3_TelephoneAnyText ==
    ((NumbersDone \/ SsmlDone) /\ Cardinality(Telephones(text)) = 1) =>
        TelephoneSpanIn(result)

\* C3, amended: for a sentence with exactly one bare 10-digit numeral, the
\* output of interpret_numbers holds a telephone say-as span of exactly that
\* numeral, and so does the assembled document unless the text holds a
\* <speak> wrapper of its own (such a text is returned with no number
\* handling).
C3_Telephone ==
    (/\ NumbersDone \/ (SsmlDone /\ ~Wrapped(text))
     /\ Cardinality(Telephones(text)) = 1) =>
        TelephoneSpanIn(result)

\* A document was assembled from a text that holds one 10-digit numeral
\* beside other words, and carries its telephone span
C3_Witness ==
    /\ SsmlDone
    /\ ~Wrapped(text)
    /\ Cardinality(Telephones(text)) = 1
    /\ Len(text) > 10
    /\ Contains(result, SayAs("telephone", "9876543210"))

\* The literal words the claim gives the round values
ClaimedWords(number) ==
    IF number = "500" THEN "five hundred"
    ELSE IF number = "100" THEN "one hundred"
    ELSE IF number = "200" THEN "two hundred"
    ELSE "one thousand"

\* C4: a standalone token 500 is rendered as the words "five hundred" and
\* never as a cardinal say-as span; 100, 200 and 1000 likewise.
C4_RoundValuesAsWords ==
    NumbersDone =>
        \A i \in Numerals(text) :
            NumeralAt(text, i) \in {"500", "100", "200", "1000"} =>
                /\ Contains(result, ClaimedWords(NumeralAt(text, i)))
                /\ ~Contains(result, SayAs("cardinal", NumeralAt(text, i)))

\* The places of t where a token dd/mm/yy or dd/mm/yyyy starts
Dates(t) == {i \in 1..Len(t) : DateAt(t, i) # NoMatch}

\* The date span the claim gives a date token: day/month/year, the year of
\* four digits
ClaimedDate(token) ==
    LET parts == split(token, "/")
        year  == IF Len(parts[3]) = 2 THEN "20" \o parts[3] ELSE parts[3]
    IN  "<say-as interpret-as=\"date\" format=\"dmy\">"
            \o parts[1] \o "/" \o parts[2] \o "/" \o year \o "</say-as>"

\* C5: a token dd/mm/yy or dd/mm/yyyy is rendered as one date say-as span,
\* format dmy, of day/month/year with a four-digit year.
C5_DateSpan ==
    NumbersDone =>
        \A i \in Dates(text) :
            Contains(result, ClaimedDate(SubSeq(text, i, DateAt(text, i) - 1)))

\* The places of t where a time hh:mm AM/PM starts
AmPmTimes(t) == {i \in 1..Len(t) : AmPmAt(t, i) # NoMatch}

\* The places of t where a time hh:mm starts that no AM/PM follows
PlainTimes(t) ==
    {i \in 1..Len(t) : TimeAt(t, i) # NoMatch /\ AmPmEnd(t, i) = NoMatch}

\* The verbal form the claim gives a time hh:mm AM/PM
ClaimedAmPm(token) ==
    LET hour   == split(token, ":")[1]
        minute == SubSeq(split(token, ":")[2], 1, 2)
        period == lower(SubSeq(token, Len(token) - 1, Len(token)))
    IN  IF hour = "3" /\ minute = "00" /\ period = "pm" THEN "three PM"
        ELSE IF hour = "2" /\ minute = "30" /\ period = "pm" THEN "two thirty PM"
        ELSE IF minute = "00" THEN hour \o " " \o period
        ELSE IF minute = "30" THEN hour \o " thirty " \o period
        ELSE hour \o " " \o minute \o " " \o period

\* C6: a time hh:mm AM/PM is rendered in literal verbal form: "3:00 PM" as
\* "three PM", "2:30 PM" as "two thirty PM", any other as "H period",
\* "H thirty period" or "H M period"; never as markup.
C6_AmPmVerbal ==
    NumbersDone =>
        \A i \in AmPmTimes(text) :
            Contains(result, ClaimedAmPm(SubSeq(text, i, AmPmAt(text, i) - 1)))

\* The rendering the claim gives a time hh:mm
ClaimedTime(token) ==
    LET hour   == split(token, ":")[1]
        minute == split(token, ":")[2]
    IN  IF minute = "00" THEN hour \o " o'clock"
        ELSE IF minute = "30" THEN hour \o " thirty"
        ELSE "<say-as interpret-as=\"time\" format=\"hms24\">" \o token \o "</say-as>"

\* C7: a token hh:mm with no AM/PM is rendered as "H o'clock" for :00, as
\* "H thirty" for :30, and else as one time say-as span in 24-hour form.
C7_PlainTime ==
    NumbersDone =>
        \A i \in PlainTimes(text) :
            Contains(result, ClaimedTime(SubSeq(text, i, TimeAt(text, i) - 1)))

\* The numeral that ends a room phrase of t
RoomNumeral(t, i) == TrailingDigits(SubSeq(t, i, RoomAt(lower(t), i) - 1))

\* The places of t where room, ward, chamber or cabin, in any letter case,
\* starts with a numeral right after it
Rooms(t) == {i \in 1..Len(t) : RoomAt(lower(t), i) # NoMatch}

\* C8: every numeral right after room, ward, chamber or cabin is rendered
\* as a character-spelled say-as span, whatever its number of digits.
C8_RoomSpelled ==
    NumbersDone =>
        \A i \in Rooms(text) :
            Contains(result, SayAs("characters", RoomNumeral(text, i)))

\* C9: "Dr. Rao" is rendered as "Doctor Rao": in the assembled document the
\* title and the name stay in one sentence wrapper, with no "Dr." fragment
\* and no pause marker between them.
C9_DoctorInDocument ==
    (SsmlDone /\ ~Wrapped(text) /\ Contains(text, "Dr. Rao")) =>
        /\ Contains(result, "Doctor Rao")
        /\ ~Contains(result, "Dr.")

CurrencyPrefixes == {"Rs.", "Rs", "INR", "₹"}

\* The currency forms of t: a place, and the prefix that starts there with
\* a numeral after it
CurrencyForms(t) ==
    {f \in (1..Len(t)) \X CurrencyPrefixes : CurrencyAt(t, f[1], f[2]) # NoMatch}

\* The numeral of the currency form f of t
CurrencyNumeral(t, f) == TrailingDigits(SubSeq(t, f[1], CurrencyAt(t, f[1], f[2]) - 1))

\* C10: each currency form Rs. N, RsN, INR N and (rupee sign)N is rewritten
\* by the pre-pass, before the numeric passes, to "rupees N": the symbol or
\* prefix is gone and the digits of N are kept as they are.
C10_Rupees ==
    NumbersDone =>
        /\ \A f \in CurrencyForms(text) :
              /\ Contains(PrePass(text), "rupees " \o CurrencyNumeral(text, f))
              /\ Contains(result, "rupees ")
        /\ CurrencyForms(PrePass(text)) = {}
        /\ CurrencyForms(result) = {}
        /\ Count(PrePass(text), "rupees ") >= Cardinality({f[1] : f \in CurrencyForms(text)})

\* interpret_numbers ran on a sentence that holds a currency form with the
\* rupee sign, and the word and the numeral are in what it returned
C10_Witness ==
    /\ NumbersDone
    /\ \E f \in CurrencyForms(text) : f[2] = "₹" /\ CurrencyNumeral(text, f) = "204"
    /\ Contains(result, "rupees " \o SayAs("cardinal", "204"))

-----------------------------------------------------------------------------
EmotionDone == op = "detect_emotion"

\* The tones in their order of priority, and the keyword list of each
Tones == <<"urgent", "empathetic", "informative", "greeting">>

KeywordsOf(tone) ==
    IF tone = "urgent" THEN urgent_keywords
    ELSE IF tone = "empathetic" THEN empathetic_keywords
    ELSE IF tone = "informative" THEN informative_keywords
    ELSE greeting_keywords

\* Some keyword of the tone is a substring of the lower-cased sentence
HasKeyword(tone, sentence) ==
    \E k \in 1..Len(KeywordsOf(tone)) :
        Contains(lower(sentence), lower(KeywordsOf(tone)[k]))

\* The places in the order of priority of the tones with a keyword in it
Hits(sentence) == {n \in 1..Len(Tones) : HasKeyword(Tones[n], sentence)}

\* C11: detect_emotion returns the first of Urgent, Empathetic, Informative,
\* Greeting that has a keyword occurring as a substring of the lower-cased
\* sentence, and Professional when none has; a sentence with an Urgent
\* keyword and a keyword of a lower category is Urgent.
C11_FirstCategoryWins ==
    EmotionDone =>
        /\ Hits(text) = {} => result = "professional"
        /\ \A n \in Hits(text) :
              (\A m \in Hits(text) : n <= m) => result = Tones[n]
        /\ (1 \in Hits(text) /\ Hits(text) # {1}) => result = "urgent"

\* A sentence with an Urgent keyword and an Informative one was classified
C11_Witness ==
    /\ EmotionDone
    /\ {1, 3} \subseteq Hits(text)
    /\ result = "urgent"

-----------------------------------------------------------------------------
\* The words that only the Hindi dictionary holds
HindiOnly ==
    {k \in 1..Len(HINDI_PRONUNCIATIONS) :
        /\ \A g \in 1..Len(PRONUNCIATION_DICTIONARY) :
              PRONUNCIATION_DICTIONARY[g].word # HINDI_PRONUNCIATIONS[k].word
        /\ \A g \in 1..Len(TAMIL_PRONUNCIATIONS) :
              TAMIL_PRONUNCIATIONS[g].word # HINDI_PRONUNCIATIONS[k].word}

\* What ends a word in a text: white space and the full stop
Delimiter == Space \cup {"."}

\* word stands in t as a whole word: between delimiters or the ends of t
WholeWord(t, word) ==
    \E i \in 1..Len(t) :
        /\ StartsWithAt(t, i, word)
        /\ i = 1 \/ Char(t, i - 1) \in Delimiter
        /\ i + Len(word) > Len(t) \/ Char(t, i + Len(word)) \in Delimiter

\* C12: each term that only the Hindi dictionary holds, standing as a whole
\* word in the text, is wrapped in a phoneme span when the active language
\* is hindi and stands unmodified, with no phoneme span, when it is english.
C12_HindiTermsTagged ==
    (SsmlDone /\ ~Wrapped(text)) =>
        \A k \in HindiOnly :
            WholeWord(text, HINDI_PRONUNCIATIONS[k].word) =>
                /\ current_language = "hindi" =>
                      Contains(result, PhonemeTag(HINDI_PRONUNCIATIONS[k]))
                /\ current_language = "english" =>
                      /\ Contains(result, HINDI_PRONUNCIATIONS[k].word)
                      /\ ~Contains(result, HINDI_PRONUNCIATIONS[k].word \o "</phoneme>")

-----------------------------------------------------------------------------
\* The places of t where a root tag opens, bare or with attributes
RootTags(t) ==
    {i \in 1..Len(t) : StartsWithAt(t, i, "<speak>") \/ StartsWithAt(t, i, "<speak ")}

\* C13: for every input that already contains a root wrapper, assembling
\* is idempotent: assembling the document again returns the same document,
\* with no wrapper added and no further processing.
C13_Idempotent ==
    (SsmlDone /\ RootTags(text) # {} /\ ~raised) =>
        text_to_ssml_with_emotion(result, pause, current_language, dictionaries) = Returned(result)

\* The markup that the stages of the assembler write
StageMarkup == {"<prosody", "<emphasis", "<break", "<say-as", "<phoneme"}

\* C14: whenever the raw input contains a root wrapper (at the start or
\* after other text, with or without attributes, a document of the engine
\* included), the assembler returns it with exactly one outer root wrapper
\* and with no sentence splitting, number normalization, pronunciation
\* tagging or prosody wrapping done on it.
C14_OneOuterWrapper ==
    (SsmlDone /\ RootTags(text) # {}) =>
        /\ StartsWithAt(result, 1, "<speak")
        /\ EndsWith(result, "</speak>")
        /\ Cardinality(RootTags(result)) = 1
        /\ Count(result, "</speak>") = 1
        /\ \A markup \in StageMarkup : Count(result, markup) = Count(text, markup)

-----------------------------------------------------------------------------
\* C15: when the language name supplied to the engine is none of english,
\* hindi, tamil, telugu (unknown or missing), the document produced
\* afterwards carries xml:lang="en-IN" and no error is raised, whatever
\* language was active before.  (Texts with a wrapper of their own, which
\* get no xml:lang at all, are left aside.)
C15_UnknownLanguageDefault ==
    (SsmlDone /\ supplied \notin voice_config /\ ~Wrapped(text)) =>
        /\ ~raised
        /\ StartsWithAt(result, 1, "<speak xml:lang=\"en-IN\">")

-----------------------------------------------------------------------------
\* The opening root tag of the documents of a language
RootTag(language) == "<speak xml:lang=\"" \o lang_code(language) \o "\">"

\* What stands in the document r of a language between its root tags
Body(r, language) == SubSeq(r, Len(RootTag(language)) + 1, Len(r) - Len("</speak>"))

\* C16: for empty or whitespace-only text, text_to_ssml_with_emotion does
\* not fail and returns a minimal root element with the resolved xml:lang
\* and an empty body: no prosody wrapper, no pause marker, no say-as or
\* phoneme span.
C16_EmptyInput ==
    (SsmlDone /\ strip(text) = "") =>
        /\ ~raised
        /\ OneRoot(result)
        /\ StartsWithAt(result, 1, RootTag(current_language))
        /\ strip(Body(result, current_language)) = ""
        /\ \A markup \in StageMarkup : ~Contains(result, markup)

\* A document was assembled from white space alone, in Tamil
C16_Witness ==
    /\ SsmlDone
    /\ text # ""
    /\ strip(text) = ""
    /\ current_language = "tamil"
    /\ result = "<speak xml:lang=\"ta-IN\">\n  \n</speak>"

-----------------------------------------------------------------------------
\* The tokens of a sentence: its longest stretches without white space
TokenStarts(t) ==
    {i \in 1..Len(t) : Char(t, i) \notin Space /\ (i = 1 \/ Char(t, i - 1) \in Space)}

TokenAt(t, i) ==
    SubSeq(t, i, CHOOSE j \in i..Len(t) :
                    /\ \A k \in i..j : Char(t, k) \notin Space
                    /\ j = Len(t) \/ Char(t, j + 1) \in Space)

\* What the rules of interpret_numbers begin with or act on: digits, the
\* currency marks and the title
RuleMarks == Digit \cup {"Rs", "INR", "₹", "Dr."}

\* The token matches no rule
MatchesNoRule(token) == \A mark \in RuleMarks : ~Contains(token, mark)

\* C17: interpret_numbers is total: for every sentence it returns a string
\* and raises in no branch of any pass (the hour and minute splitting and
\* the integer conversion of the time branches included), and every token
\* that matches no rule stands unchanged in the result; a sentence with no
\* such match at all is returned as it is.
C17_Total ==
    NumbersDone =>
        /\ ~raised
        /\ \A i \in TokenStarts(text) :
              MatchesNoRule(TokenAt(text, i)) => Contains(result, TokenAt(text, i))
        /\ MatchesNoRule(text) => result = text

\* interpret_numbers ran on a sentence with an hh:mm PM time, whose hour
\* and minutes it rewrote, beside a token that matches no rule
C17_Witness ==
    /\ NumbersDone
    /\ Contains(text, "3:00 PM")
    /\ \E i \in TokenStarts(text) : TokenAt(text, i) = "appointment"
    /\ Contains(result, SayAs("cardinal", "00") \o " PM")
    /\ Contains(result, " appointment ")

-----------------------------------------------------------------------------
\* A step that is a call of one of the three methods
Call == op = "none" /\ op' # "none"

\* C18: a call of text_to_ssml_with_emotion, interpret_numbers or
\* detect_emotion, after any calls before it, leaves the three
\* dictionaries and the active language as they were; so the document a
\* call returns, which the engine makes from the dictionaries as it finds
\* them, is the one that the text, the language and the pause duration
\* give with the dictionaries as the module wrote them, whatever was
\* called earlier.
C18_Frame ==
    [][Call =>
        /\ dictionaries' = dictionaries
        /\ current_language' = current_language
        /\ supplied' = supplied
        /\ text' = text
        /\ op' = "text_to_ssml_with_emotion" =>
              [raised |-> raised', text |-> result'] =
                  text_to_ssml_with_emotion(text, pause', current_language, AsWritten)]_vars

\* A document was assembled in Hindi from a text with a word of the Hindi
\* dictionary, after the language was set and an earlier request was
\* served; the language is Hindi still, the dictionaries are as the module
\* wrote them, and the same text yields another document in English
C18_Witness ==
    /\ SsmlDone
    /\ current_language = "hindi"
    /\ typed = MaxPieces
    /\ dictionaries = AsWritten
    /\ Contains(result, PhonemeTag(HINDI_PRONUNCIATIONS[1]))
    /\ result = text_to_ssml_with_emotion(text, pause, "hindi", dictionaries).text
    /\ result # text_to_ssml_with_emotion(text, pause, "english", dictionaries).text

-----------------------------------------------------------------------------
\* C19: calls may run side by side on one engine without locking: under
\* any interleaving of calls of text_to_ssml_with_emotion with each other
\* and with calls of set_language, every document returned is one that a
\* sequential execution returns: its dictionary, its English Yashoda skip
\* and its xml:lang all belong to one and the same language.
C19_Serializable ==
    \A thread \in Threads :
        call[thread].pc = "done" =>
            \E language \in voice_config :
                [raised |-> call[thread].raised, text |-> call[thread].document] =
                    text_to_ssml_with_emotion(call[thread].text, call[thread].break_time,
                                              language, dictionaries)

-----------------------------------------------------------------------------
\* The sentence after interpret_numbers and the pronunciation substitution
Normalized(sentence, language) ==
    Pronounced(interpret_numbers(sentence).text, language, dictionaries)

\* The document holds the normalized sentence inside the template of the tone
TonedIn(r, tone, sentence, language) ==
    Contains(r, ApplyTone(tone, Normalized(sentence, language)))

\* C20 as stated: the tone the assembler gives a sentence is the
\* classification of its normalized text, and detect_emotion gives the raw
\* sentence the category it gives the sentence after interpret_numbers and
\* the pronunciation substitution.
C20_ToneOfNormalized ==
    /\ (SsmlDone /\ ~Wrapped(text)) =>
            \A k \in 1..Len(Sentences(text)) :
                TonedIn(result,
                        detect_emotion(Normalized(Sentences(text)[k], current_language)),
                        Sentences(text)[k], current_language)
    /\ EmotionDone => result = detect_emotion(Normalized(text, current_language))

\* C20, amended: the tone the assembler gives a sentence is the
\* classification of the raw sentence, taken before interpret_numbers and
\* the pronunciation substitution run on it.
C20_ToneOfRaw ==
    (SsmlDone /\ ~Wrapped(text)) =>
        \A k \in 1..Len(Sentences(text)) :
            TonedIn(result, detect_emotion(Sentences(text)[k]),
                    Sentences(text)[k], current_language)

\* A document was assembled from a sentence that is Urgent as it stands
\* and Professional once normalized, and holds it in the Urgent template
C20_Witness ==
    /\ SsmlDone
    /\ Len(Sentences(text)) = 1
    /\ detect_emotion(Sentences(text)[1]) = "urgent"
    /\ detect_emotion(Normalized(Sentences(text)[1], current_language)) = "professional"
    /\ Contains(result, "<emphasis level=\"strong\">")
    /\ Contains(result, SayAs("cardinal", "108"))

-----------------------------------------------------------------------------
\* The template the specification gives each category
ClaimedTemplate(tone, body) ==
    IF tone = "urgent"
    THEN "<emphasis level=\"strong\"><prosody rate=\"110%\" pitch=\"+5%\" volume=\"loud\">"
            \o body \o "</prosody></emphasis>"
    ELSE IF tone = "empathetic"
    THEN "<prosody rate=\"90%\" pitch=\"-5%\" volume=\"medium\">" \o body \o "</prosody>"
    ELSE IF tone = "informative"
    THEN "<prosody rate=\"95%\" pitch=\"0%\" volume=\"medium\">" \o body \o "</prosody>"
    ELSE IF tone = "greeting"
    THEN "<prosody rate=\"medium\" pitch=\"+5%\" volume=\"medium\">" \o body \o "</prosody>"
    ELSE "<prosody rate=\"medium\" pitch=\"0%\">" \o body \o "</prosody>"

\* C21: each sentence is wrapped in exactly the template of its category:
\* Urgent in strong emphasis around prosody rate 110%, pitch +5%, volume
\* loud; Empathetic in rate 90%, pitch -5%, volume medium; Informative in
\* rate 95%, pitch 0%, volume medium; Greeting in rate medium, pitch +5%,
\* volume medium; Professional in rate medium, pitch 0% and no volume.
C21_Templates ==
    (SsmlDone /\ ~Wrapped(text)) =>
        \A k \in 1..Len(Sentences(text)) :
            Contains(result,
                     ClaimedTemplate(detect_emotion(Sentences(text)[k]),
                                     Normalized(Sentences(text)[k], current_language)))

-----------------------------------------------------------------------------
\* The entries of the dictionary of a language that the assembler applies:
\* all but the Yashoda entries when the language is english
ActiveEntries(language) ==
    {k \in 1..Len(all_pronunciations(dictionaries, language)) :
        ~(language = "english" /\ lower(all_pronunciations(dictionaries, language)[k].word) \in YashodaNames)}

\* The places of t where word stands as a whole word, in any letter case
Occurrences(t, word) == {i \in 1..Len(t) : WordAt(t, i, word) # NoMatch}

\* The opening tag of a phoneme span with the IPA string and the alphabet
\* of an entry
SpanOpen(entry) ==
    "<phoneme alphabet=\"" \o entry.alphabet \o "\" ph=\"" \o entry.pronunciation \o "\">"

\* C22: for each entry of the active dictionary, every occurrence of its
\* term as a whole word, in any letter case ("CHENNAI", "Fever"), is
\* replaced by a phoneme span with that entry's IPA string and alphabet,
\* and a text whose terms are only parts of longer words gets no span.
C22_WholeWordsTagged ==
    (SsmlDone /\ ~Wrapped(text)) =>
        /\ \A k \in ActiveEntries(current_language) :
              Count(result, SpanOpen(all_pronunciations(dictionaries, current_language)[k]))
                  >= Cardinality(Occurrences(text, all_pronunciations(dictionaries, current_language)[k].word))
        /\ (\A k \in ActiveEntries(current_language) :
                Occurrences(text, all_pronunciations(dictionaries, current_language)[k].word) = {})
              => ~Contains(result, "<phoneme")

-----------------------------------------------------------------------------
\* The places of r where a phoneme span opens, and where one closes
SpanOpens(r) == {i \in 1..Len(r) : StartsWithAt(r, i, "<phoneme ")}
SpanCloses(r) == {i \in 1..Len(r) : StartsWithAt(r, i, "</phoneme>")}

\* A phoneme span of r opens inside another: no span closes between two
\* places where spans open
Nested(r) ==
    \E i, j \in SpanOpens(r) :
        /\ i < j
        /\ \A c \in SpanCloses(r) : ~(i < c /\ c < j)

\* C23: no phoneme span is inserted inside a phoneme span of an earlier
\* dictionary entry: for every sentence and every active language the
\* document holds no nested phoneme elements, also when the dictionary
\* holds several case variants of one term (Yashoda, YASHODA, yashoda).
C23_NoNestedSpans ==
    (SsmlDone /\ ~Wrapped(text)) => ~Nested(result)

-----------------------------------------------------------------------------
\* The bare integer tokens of t: the places where a token of digits alone
\* starts
BareIntegers(t) == {i \in TokenStarts(t) : isdigit(TokenAt(t, i))}

\* The numeral at i comes right after room, ward, chamber or cabin
FollowsRoom(t, i) ==
    \E j \in Rooms(t) : j < i /\ RoomAt(lower(t), j) = i + Len(TokenAt(t, i))

\* The values the specification renders as words
RoundValues == {"100", "200", "500", "1000"}

\* C24: every bare integer token that is not a 10-digit numeral, does not
\* come right after room, ward, chamber or cabin and is not one of 100,
\* 200, 500, 1000 is rendered as a cardinal say-as span around that very
\* token, for 1-4 digits and for 5 or more alike, whatever else the
\* sentence holds (an AM/PM time, a room number elsewhere).
C24_CardinalSpan ==
    NumbersDone =>
        \A i \in BareIntegers(text) :
            (/\ Len(TokenAt(text, i)) # 10
             /\ ~FollowsRoom(text, i)
             /\ TokenAt(text, i) \notin RoundValues)
                => Contains(result, SayAs("cardinal", TokenAt(text, i)))

-----------------------------------------------------------------------------
\* From place i on, r is the wrapped sentences from the k-th on, in their
\* order, a pause marker of the duration between each two of them, and
\* the closing root tag after the last
RECURSIVE SentencesFrom(_, _, _, _, _, _)
WrappedAt(r, i, wrapped, sentences, k, language, break_time) ==
    /\ StartsWithAt(r, i, wrapped)
    /\ IF k = Len(sentences)
       THEN SubSeq(r, i + Len(wrapped), Len(r)) = "\n</speak>"
       ELSE /\ StartsWithAt(r, i + Len(wrapped), BreakTag(break_time))
            /\ SentencesFrom(r, i + Len(wrapped) + Len(BreakTag(break_time)),
                             sentences, k + 1, language, break_time)

SentencesFrom(r, i, sentences, k, language, break_time) ==
    WrappedAt(r, i,
              ApplyTone(detect_emotion(sentences[k]), Normalized(sentences[k], language)),
              sentences, k, language, break_time)

\* C25: for input that segments into n >= 1 non-empty sentences, the body
\* of the document holds exactly n prosody-wrapped sentences, in the order
\* of the input, and exactly n-1 pause markers of the configured duration:
\* one between each two consecutive sentences, none before the first and
\* none after the last.
C25_SentencesAndPauses ==
    (SsmlDone /\ ~Wrapped(text) /\ Len(Sentences(text)) >= 1) =>
        /\ Count(result, "<prosody ") = Len(Sentences(text))
        /\ Count(result, "</prosody>") = Len(Sentences(text))
        /\ Count(result, "<break ") = Len(Sentences(text)) - 1
        /\ Count(result, BreakTag(pause)) = Len(Sentences(text)) - 1
        /\ SentencesFrom(result, Len(RootTag(current_language)) + 4, Sentences(text), 1,
                         current_language, pause)

\* A document was assembled from three sentences with the pause of 200ms:
\* it holds two pause markers of that duration
C25_Witness ==
    /\ SsmlDone
    /\ ~Wrapped(text)
    /\ Len(Sentences(text)) = 3
    /\ pause = "200ms"
    /\ Count(result, "<break time=\"200ms\"/>") = 2
    /\ Count(result, "<prosody ") = 3

-----------------------------------------------------------------------------
SynthDone == op = "synthesize"

\* The places of t where Yashoda or Yashodha stands as a whole word, in
\* any letter case
YashodaPlaces(t) == Occurrences(t, "Yashoda") \cup Occurrences(t, "Yashodha")

\* r holds a phoneme span around Yashoda or Yashodha, in any letter case
YashodaSpan(r) ==
    \/ Contains(lower(r), ">yashoda</phoneme>")
    \/ Contains(lower(r), ">yashodha</phoneme>")

\* The entries of the general dictionary, Yashoda's apart, whose term is
\* one word and stands in t as a whole word in the spelling of the entry
OtherTermsIn(t) ==
    {k \in ActiveEntries("english") :
        /\ ~Contains(PRONUNCIATION_DICTIONARY[k].word, " ")
        /\ \E i \in Occurrences(t, PRONUNCIATION_DICTIONARY[k].word) :
              StartsWithAt(t, i, PRONUNCIATION_DICTIONARY[k].word)}

\* C26: with the language english, the assembler wraps no occurrence of
\* Yashoda or Yashodha, in any letter case, in a phoneme span, while it
\* still wraps the other terms of the general dictionary; synthesize
\* replaces each whole-word occurrence by the literal respelling before
\* the document is assembled.  The language is english for a call when
\* english is what each of its reads of the language gave.
C26_YashodaRespelled ==
    /\ (SsmlDone /\ call[1].read = {"english"} /\ ~Wrapped(text)) =>
          /\ ~YashodaSpan(result)
          /\ \A i \in YashodaPlaces(text) :
                Contains(result, SubSeq(text, i, i + 6))
          /\ \A k \in OtherTermsIn(text) :
                Contains(result, PhonemeTag(PRONUNCIATION_DICTIONARY[k]))
    /\ (SynthDone /\ call[1].read = {"english"}) =>
          /\ ~YashodaSpan(result)
          /\ YashodaPlaces(result) = {}
          /\ Count(result, "ya-show-da") = Cardinality(YashodaPlaces(text))
          /\ ~Wrapped(text) =>
                \A k \in OtherTermsIn(text) :
                    Contains(result, PhonemeTag(PRONUNCIATION_DICTIONARY[k]))

\* synthesize ran, reading the language as english each time, on a text
\* with YASHODA and Chennai as whole words, and got audio for a document
\* with the respelling and the span of Chennai
C26_Witness ==
    /\ SynthDone
    /\ audio = "audio"
    /\ call[1].read = {"english"}
    /\ Occurrences(text, "YASHODA") # {}
    /\ Occurrences(text, "Chennai") # {}
    /\ Contains(result, "ya-show-da <phoneme ")
    /\ Contains(result, ">Chennai</phoneme>")

-----------------------------------------------------------------------------
\* C27: after any sequence of set_language calls with arbitrary arguments
\* the active language is one of english, hindi, tamil, telugu (english
\* at first), a call with a name outside that set leaves the active
\* language unchanged, and so the en-IN default of the language-code
\* lookup is never taken.
C27_LanguageSupported ==
    /\ current_language = "english"
    /\ [](/\ current_language \in {"english", "hindi", "tamil", "telugu"}
          /\ current_language \in lang_code_keys
          /\ (SsmlDone /\ ~Wrapped(text)) =>
                StartsWithAt(result, 1, "<speak xml:lang=\""
                                          \o SubSeq(current_language, 1, 2) \o "-IN\">"))
    /\ [][supplied' \notin {"english", "hindi", "tamil", "telugu"}
            => current_language' = current_language]_vars

\* A document was assembled after set_language took tamil and then a name
\* it does not know: it carries the code of tamil
C27_Witness ==
    /\ SsmlDone
    /\ ~Wrapped(text)
    /\ supplied = "kannada"
    /\ current_language = "tamil"
    /\ StartsWithAt(result, 1, "<speak xml:lang=\"ta-IN\">")

-----------------------------------------------------------------------------
\* C28: a call of synthesize, whether it succeeds, fails or retries after
\* an authentication error, leaves the active language of the provider
\* (and, for GoogleTTS, the custom voice name) as the last set_language or
\* set_voice_name call set it, so the next synthesize uses the same
\* language and voice.  The steps of a call are those that move the caller
\* or the call of the assembler it makes.
C28_SynthesizeFrame ==
    [][(op' # op \/ call' # call) =>
          /\ current_language' = current_language
          /\ google' = google
      ]_vars

-----------------------------------------------------------------------------
\* The sentence as the generic integer pass leaves it
AfterIntegerPass(sentence) == RunPasses(sentence, PrePasses \o <<NumericPasses[1]>>, 1)

\* The generic integer pass returned s; the patterns of the three passes
\* that follow it match nowhere in that text, these passes return it as it
\* is, and r is what the two literal overrides make of it
NoLaterMatch(s, r) ==
    /\ ~s.raised
    /\ MatchPositions(Date, s.text) = {}
    /\ MatchPositions(AmPm, s.text) = {}
    /\ MatchPositions(Time, s.text) = {}
    /\ RunPasses(s.text, SubSeq(NumericPasses, 2, 4), 1) = Returned(s.text)
    /\ r = Substituted(s.text, FixPasses)

\* Every match of the generic integer pass in p is a token of digits alone
AllDigitMatches(p) ==
    \A i \in MatchPositions(Integer, p) : isdigit(SubSeq(p, i, IntegerAt(p, i) - 1))

\* C29: in interpret_numbers the callback is only ever invoked on
\* all-digit tokens: for every sentence, the string the generic integer
\* pass leaves holds no match of the date, hh:mm AM/PM or hh:mm patterns,
\* so the three later passes leave it unchanged and never match text the
\* integer pass emitted.
C29_LaterPassesIdle ==
    NumbersDone =>
        /\ ~raised
        /\ NoLaterMatch(AfterIntegerPass(text), result)
        /\ AllDigitMatches(PrePass(text))

\* interpret_numbers ran on a sentence with a date and a time in it, and
\* what it returned holds neither: their numerals are in cardinal spans
C29_Witness ==
    /\ NumbersDone
    /\ Dates(text) # {}
    /\ PlainTimes(text) # {}
    /\ Dates(result) = {}
    /\ PlainTimes(result) = {}
    /\ Contains(result, SayAs("cardinal", "01") \o "/" \o SayAs("cardinal", "02") \o "/")
    /\ Contains(result, SayAs("cardinal", "5") \o ":" \o SayAs("cardinal", "00"))

-----------------------------------------------------------------------------
\* The entry of the dictionary of a language for a term
EntryOf(language, word) ==
    CHOOSE entry \in {all_pronunciations(dictionaries, language)[k] :
                            k \in 1..Len(all_pronunciations(dictionaries, language))} :
        entry.word = word

\* C30: when a sentence holds a term of several words whose first word is
\* itself a term iterated earlier ("Tamil Nadu" and "Tamil"), the phoneme
\* span of that occurrence is the longer term's: for any active language a
\* sentence with the whole phrase "Tamil Nadu" yields a span with the
\* pronunciation of the "Tamil Nadu" entry.
C30_LongerTermWins ==
    (SsmlDone /\ ~Wrapped(text) /\ Occurrences(text, "Tamil Nadu") # {}) =>
        Contains(result, SpanOpen(EntryOf(current_language, "Tamil Nadu")))

=============================================================================
